---- MODULE Spec2Model ----
(***************************************************************************)
(* Session/file store of the Judge0 bridge (src/src/storage.ts): the       *)
(* in-process MemoryStorage and the RedisStorage, with calls interleaving  *)
(* at their await points and a millisecond clock.                          *)
(***************************************************************************)
EXTENDS Integers, Sequences, FiniteSets, TLC

VARIABLES
  backend,    \* config.storageType: which store getStorage() constructed
  expiryMs,   \* config.sessionExpiryMs
  librechatCodeApiKey, \* config.librechatCodeApiKey, '' when none is configured
  now,        \* Date.now(), in ms
  mem,        \* MemoryStorage: the sessions Map and the Session objects it refers to
  rd,         \* the Redis keyspace RedisStorage writes
  procs,      \* the store calls in flight: one frame per caller
  nextFile,   \* nanoid(): how many file ids were generated
  calls,      \* how many calls the callers made
  usedSids,   \* session ids already generated by nanoid() or chosen by a caller
  added,      \* history: file id -> what addFile was given when it returned that id
  gone,       \* history: files whose session was invalid at some moment since addFile returned
  pristine,   \* history: session id -> time createSession made it, while nothing accessed it since
  condemned,  \* history: files held by a session that a call found expired when it started
  pair,       \* paired run: the last call's result from each backend
  client      \* Judge0Client: the execute call, or the part of it, under way

vars == <<backend, expiryMs, librechatCodeApiKey, now, mem, rd, procs, nextFile, calls, usedSids,
          added, gone, pristine, condemned, pair, client>>

----------------------------------------------------------------------------
(* Bounds of the model *)

MaxTicks == 2
MaxFiles == 2
MaxCalls == 3

(* One clock step, in ms, and the configured expiries tried: below one   *)
(* second, one second, and not a multiple of one second.                 *)
TickMs == 500
ExpiryChoices == {500, 1000, 1500}

Procs == {1, 2}
SessionIds == {"s1", "s2"}
FileIds == 1..MaxFiles
Refs == 1..(Cardinality(SessionIds) + Cardinality(Procs))

(* What a caller uploads: a display name and a byte payload *)
Uploads ==
  { [name |-> "empty.txt", data |-> << >>],
    [name |-> "test.png", data |-> <<137, 80, 78, 71>>] }

None == -1
NoRef == 0
NoFile == 0
Null == [kind |-> "null"]
EmptyMap == [x \in {} |-> Null]

----------------------------------------------------------------------------
(* Buffer.toString('base64') and Buffer.from(s, 'base64'): text is a       *)
(* sequence of alphabet indices 0..63, with Pad for '='.                   *)

Pad == 64

RECURSIVE Base64Encode(_)
Base64Encode(b) ==
  IF Len(b) = 0 THEN << >>
  ELSE IF Len(b) = 1 THEN
    << b[1] \div 4, (b[1] % 4) * 16, Pad, Pad >>
  ELSE IF Len(b) = 2 THEN
    << b[1] \div 4, (b[1] % 4) * 16 + (b[2] \div 16), (b[2] % 16) * 4, Pad >>
  ELSE
    << b[1] \div 4, (b[1] % 4) * 16 + (b[2] \div 16),
       (b[2] % 16) * 4 + (b[3] \div 64), b[3] % 64 >>
    \o Base64Encode(SubSeq(b, 4, Len(b)))

RECURSIVE Base64Decode(_)
Base64Decode(s) ==
  IF Len(s) < 2 \/ s[1] = Pad \/ s[2] = Pad THEN << >>
  ELSE IF Len(s) < 3 \/ s[3] = Pad THEN
    << s[1] * 4 + (s[2] \div 16) >>
  ELSE IF Len(s) < 4 \/ s[4] = Pad THEN
    << s[1] * 4 + (s[2] \div 16), (s[2] % 16) * 16 + (s[3] \div 4) >>
  ELSE
    << s[1] * 4 + (s[2] \div 16), (s[2] % 16) * 16 + (s[3] \div 4),
       (s[3] % 4) * 64 + s[4] >>
    \o Base64Decode(SubSeq(s, 5, Len(s)))

(* Date.toISOString() and new Date(iso): millisecond-exact text *)
ToISOString(t) == [iso |-> t]
ParseDate(s) == s.iso

(* JSON.stringify / JSON.parse of the file metadata object *)
JsonStringify(o) == [json |-> <<o.name, o.size, o.createdAt>>]
JsonParse(j) == [name |-> j.json[1], size |-> j.json[2], createdAt |-> j.json[3]]

----------------------------------------------------------------------------
(* Results handed back to the caller *)

IdRes(id) == [kind |-> "id", id |-> id]
SidRes(id) == [kind |-> "sid", id |-> id]
BoolRes(b) == [kind |-> "bool", val |-> b]
FileRes(id, name, data, size, createdAt) ==
  [kind |-> "file", id |-> id, name |-> name, data |-> data, size |-> size,
   createdAt |-> createdAt]
ListRes(items) == [kind |-> "list", items |-> items]
SessionRes(id, files, lastAccessedAt) ==
  [kind |-> "session", id |-> id, files |-> files, lastAccessedAt |-> lastAccessedAt]

(* A call frame: the operation, its arguments, where it is suspended and  *)
(* its locals. conc, startValid, startExpired, startAt and seen are        *)
(* history fields, read by no operation.                                  *)
IdleFrame ==
  [op |-> "none", sid |-> "s1", fid |-> NoFile, up |-> Null, pc |-> "idle",
   ref |-> NoRef, v |-> FALSE, loc |-> Null, res |-> Null,
   conc |-> FALSE, startValid |-> FALSE, startExpired |-> FALSE,
   startAt |-> 0, seen |-> {}]

NewFrame(op, sid, fid, up) ==
  [IdleFrame EXCEPT !.op = op, !.sid = sid, !.fid = fid, !.up = up]

Done(fr, res) == [fr EXCEPT !.pc = "done", !.res = res]

----------------------------------------------------------------------------
(* MemoryStorage. The sessions Map holds references to Session objects; a  *)
(* suspended call keeps the reference it read, also after the Map entry    *)
(* was deleted or replaced.                                                *)

FreeObj == [free |-> TRUE]
NewSession(t) == [files |-> EmptyMap, lastAccessedAt |-> t]

MemInit ==
  [sessions |-> [s \in SessionIds |-> NoRef], heap |-> [r \in Refs |-> FreeObj]]

MemAlloc(m) ==
  CHOOSE r \in Refs :
    m.heap[r] = FreeObj /\ \A q \in Refs : q < r => m.heap[q] # FreeObj

(* Objects no Map entry and no frame refers to are garbage *)
MemCollect(m, frames) ==
  LET live == {m.sessions[s] : s \in SessionIds} \cup {frames[p].ref : p \in DOMAIN frames}
  IN [m EXCEPT !.heap = [r \in Refs |-> IF r \in live THEN m.heap[r] ELSE FreeObj]]

(* Variant: the boundary instant still counts as valid *)
MemIsSessionValidInclusive(m, s, t) ==
  /\ m.sessions[s] # NoRef
  /\ (t - m.heap[m.sessions[s]].lastAccessedAt) <= expiryMs

(* isSessionValid: (now - lastAccessed) < config.sessionExpiryMs *)
MemIsSessionValid(m, s, t) ==
  /\ m.sessions[s] # NoRef
  /\ (t - m.heap[m.sessions[s]].lastAccessedAt) < expiryMs

(* In the Map, and its idle time has reached the expiry: not yet purged *)
MemExpiredUnpurged(m, s, t) ==
  /\ m.sessions[s] # NoRef
  /\ (t - m.heap[m.sessions[s]].lastAccessedAt) >= expiryMs

(* createSession: sessions.set(id, {files: new Map(), lastAccessedAt: now}) *)
MemCreateSession(m, id, t) ==
  LET r == MemAlloc(m)
  IN [m EXCEPT !.sessions[id] = r, !.heap[r] = NewSession(t)]

(* getSession up to its await: the Map lookup and the call of isSessionValid *)
MemGetSessionEnter(m, fr, t) ==
  LET r == m.sessions[fr.sid]
  IN IF r = NoRef
     THEN [fr EXCEPT !.pc = "m_ret", !.ref = NoRef]
     ELSE [fr EXCEPT !.pc = "m_valid", !.ref = r, !.v = MemIsSessionValid(m, fr.sid, t)]

(* Variant: the expired entry is touched and kept *)
MemGetSessionResumeKeep(m, fr, t) ==
  [st |-> [m EXCEPT !.heap[fr.ref].lastAccessedAt = t],
   fr |-> [fr EXCEPT !.pc = "m_ret"]]

(* Variant: the session found valid is returned without being touched *)
MemGetSessionResumeStale(m, fr, t) ==
  IF ~fr.v
  THEN [st |-> [m EXCEPT !.sessions[fr.sid] = NoRef],
        fr |-> [fr EXCEPT !.pc = "m_ret", !.ref = NoRef]]
  ELSE [st |-> m, fr |-> [fr EXCEPT !.pc = "m_ret"]]

(* getSession after its await: delete the expired entry, or touch the object *)
MemGetSessionResume(m, fr, t) ==
  IF ~fr.v
  THEN [st |-> [m EXCEPT !.sessions[fr.sid] = NoRef],
        fr |-> [fr EXCEPT !.pc = "m_ret", !.ref = NoRef]]
  ELSE [st |-> [m EXCEPT !.heap[fr.ref].lastAccessedAt = t],
        fr |-> [fr EXCEPT !.pc = "m_ret"]]

StoredFile(id, up, t) ==
  [id |-> id, name |-> up.name, data |-> up.data, size |-> Len(up.data), createdAt |-> t]

(* addFile after `await this.getSession(sessionId)` *)
MemAddFile(m, fr, t) ==
  LET r  == IF fr.ref = NoRef THEN MemAlloc(m) ELSE fr.ref
      m1 == IF fr.ref = NoRef
            THEN [m EXCEPT !.sessions[fr.sid] = r, !.heap[r] = NewSession(t)]
            ELSE m
      m2 == [m1 EXCEPT !.heap[r].files =
               (fr.fid :> StoredFile(fr.fid, fr.up, t)) @@ m1.heap[r].files]
  IN [st |-> m2, fr |-> Done([fr EXCEPT !.ref = NoRef], IdRes(fr.fid))]

(* getFile after `await this.getSession(sessionId)` *)
MemGetFile(m, fr) ==
  LET files == IF fr.ref = NoRef THEN EmptyMap ELSE m.heap[fr.ref].files
      res == IF fr.fid \in DOMAIN files
             THEN LET f == files[fr.fid]
                  IN FileRes(f.id, f.name, f.data, f.size, f.createdAt)
             ELSE Null
  IN [st |-> m, fr |-> Done([fr EXCEPT !.ref = NoRef], res)]

(* Variant: listFiles adopts a missing session the way addFile does *)
MemListFilesCreate(m, fr) ==
  IF fr.ref = NoRef
  THEN [st |-> MemCreateSession(m, fr.sid, fr.startAt), fr |-> Done(fr, ListRes({}))]
  ELSE [st |-> m,
        fr |-> Done([fr EXCEPT !.ref = NoRef],
                    ListRes({[id |-> f] : f \in DOMAIN m.heap[fr.ref].files}))]

(* listFiles after `await this.getSession(sessionId)` *)
MemListFiles(m, fr) ==
  LET files == IF fr.ref = NoRef THEN EmptyMap ELSE m.heap[fr.ref].files
      items == { [id |-> files[f].id, name |-> files[f].name, size |-> files[f].size,
                  lastModified |-> ToISOString(files[f].createdAt)] : f \in DOMAIN files }
  IN [st |-> m, fr |-> Done([fr EXCEPT !.ref = NoRef], ListRes(items))]

(* getSession called by the caller itself: the Session or null *)
MemGetSessionReturn(m, fr) ==
  LET res == IF fr.ref = NoRef THEN Null
             ELSE SessionRes(fr.sid, DOMAIN m.heap[fr.ref].files,
                             m.heap[fr.ref].lastAccessedAt)
  IN [st |-> m, fr |-> Done([fr EXCEPT !.ref = NoRef], res)]

(* Variant: the sweep spares a session whose idle time equals the expiry *)
MemCleanupLate(m, t) ==
  [m EXCEPT !.sessions =
     [s \in SessionIds |->
        IF m.sessions[s] # NoRef /\ (t - m.heap[m.sessions[s]].lastAccessedAt) > expiryMs
        THEN NoRef ELSE m.sessions[s]]]

(* cleanup: delete every session with (now - lastAccessed) >= expiry *)
MemCleanup(m, t) ==
  [m EXCEPT !.sessions =
     [s \in SessionIds |->
        IF m.sessions[s] # NoRef /\ (t - m.heap[m.sessions[s]].lastAccessedAt) >= expiryMs
        THEN NoRef ELSE m.sessions[s]]]

----------------------------------------------------------------------------
(* RedisStorage. Keys: session:{sid} (hash), session:{sid}:files (hash     *)
(* fileId -> JSON metadata), file:{sid}:{fid} (base64 string). A key has   *)
(* an expiry time or none; the server drops it when the clock reaches it.  *)

AbsentSess  == [ex |-> FALSE, hasId |-> FALSE, lastAccessedAt |-> None, exp |-> None]
AbsentFiles == [ex |-> FALSE, meta |-> EmptyMap, exp |-> None]
AbsentData  == [ex |-> FALSE, val |-> << >>, exp |-> None]

RedisInit ==
  [sess  |-> [s \in SessionIds |-> AbsentSess],
   files |-> [s \in SessionIds |-> AbsentFiles],
   data  |-> [k \in SessionIds \X FileIds |-> AbsentData]]

(* constructor: this.ttlSeconds = Math.floor(config.sessionExpiryMs / 1000) *)
TtlSeconds == expiryMs \div 1000

(* EXPIRE key seconds: no effect on a missing key; a timeout that is not   *)
(* positive deletes the key.                                               *)
RedisExpire(key, absent, t) ==
  IF ~key.ex THEN key
  ELSE IF TtlSeconds <= 0 THEN absent
  ELSE [key EXCEPT !.exp = t + TtlSeconds * 1000]

(* The server's own expiry at time t *)
RedisPurge(r, t) ==
  LET dead(key) == key.ex /\ key.exp # None /\ t >= key.exp
  IN [sess  |-> [s \in SessionIds |-> IF dead(r.sess[s]) THEN AbsentSess ELSE r.sess[s]],
      files |-> [s \in SessionIds |-> IF dead(r.files[s]) THEN AbsentFiles ELSE r.files[s]],
      data  |-> [k \in SessionIds \X FileIds |->
                   IF dead(r.data[k]) THEN AbsentData ELSE r.data[k]]]

(* Variant: the refresh reaches the keys of every session *)
RefreshTTLAll(r, s, t) ==
  [r EXCEPT !.sess  = [x \in SessionIds |-> RedisExpire(r.sess[x], AbsentSess, t)],
            !.files = [x \in SessionIds |-> RedisExpire(r.files[x], AbsentFiles, t)]]

(* refreshTTL: a pipeline of EXPIRE on the session key and the files key *)
RefreshTTL(r, s, t) ==
  [r EXCEPT !.sess[s]  = RedisExpire(r.sess[s], AbsentSess, t),
            !.files[s] = RedisExpire(r.files[s], AbsentFiles, t)]

(* HSET session:{sid} {id, createdAt, lastAccessedAt}: creates the hash, or *)
(* overwrites the fields and leaves the expiry as it is.                    *)
HSetSession(r, s, t) ==
  [r EXCEPT !.sess[s] = [ex |-> TRUE, hasId |-> TRUE, lastAccessedAt |-> t,
                         exp |-> r.sess[s].exp]]

(* HSET session:{sid} lastAccessedAt now: creates a hash with that one field *)
(* when the key is missing.                                                  *)
HSetLastAccessed(r, s, t) ==
  [r EXCEPT !.sess[s] = [ex |-> TRUE, hasId |-> r.sess[s].hasId, lastAccessedAt |-> t,
                         exp |-> r.sess[s].exp]]

(* isSessionValid: EXISTS session:{sid} *)
RedisIsSessionValid(r, s) == r.sess[s].ex

(* createSession *)
RedisCreateSessionHset(r, fr, t) ==
  [st |-> HSetSession(r, fr.sid, t), fr |-> [fr EXCEPT !.pc = "r_cs_expire"]]
RedisCreateSessionExpire(r, fr, t) ==
  [st |-> [r EXCEPT !.sess[fr.sid] = RedisExpire(r.sess[fr.sid], AbsentSess, t)],
   fr |-> Done(fr, SidRes(fr.sid))]

(* getSession *)
RedisGetSessionHgetall(r, fr) ==
  [st |-> r,
   fr |-> IF ~r.sess[fr.sid].ex \/ ~r.sess[fr.sid].hasId
          THEN Done(fr, Null) ELSE [fr EXCEPT !.pc = "r_gs_hset"]]
RedisGetSessionHset(r, fr, t) ==
  [st |-> HSetLastAccessed(r, fr.sid, t),
   fr |-> [fr EXCEPT !.pc = "r_gs_ttl", !.loc = [now |-> t]]]
RedisGetSessionTtl(r, fr, t) ==
  [st |-> RefreshTTL(r, fr.sid, t), fr |-> [fr EXCEPT !.pc = "r_gs_files"]]
RedisGetSessionFiles(r, fr) ==
  [st |-> r,
   fr |-> Done([fr EXCEPT !.loc = Null],
               SessionRes(fr.sid, DOMAIN r.files[fr.sid].meta, fr.loc.now))]

(* addFile *)
RedisAddFileExists(r, fr) ==
  [st |-> r,
   fr |-> [fr EXCEPT !.pc = IF r.sess[fr.sid].ex THEN "r_af_hsetfile" ELSE "r_af_hsetsess"]]
RedisAddFileHsetSession(r, fr, t) ==
  [st |-> HSetSession(r, fr.sid, t), fr |-> [fr EXCEPT !.pc = "r_af_hsetfile"]]
RedisAddFileHsetFile(r, fr, t) ==
  LET metadata == [name |-> fr.up.name, size |-> Len(fr.up.data),
                   createdAt |-> ToISOString(t)]
  IN [st |-> [r EXCEPT !.files[fr.sid] =
                [ex |-> TRUE,
                 meta |-> (fr.fid :> JsonStringify(metadata)) @@ r.files[fr.sid].meta,
                 exp |-> r.files[fr.sid].exp]],
      fr |-> [fr EXCEPT !.pc = "r_af_set"]]
RedisAddFileSet(r, fr) ==
  [st |-> [r EXCEPT !.data[<<fr.sid, fr.fid>>] =
             [ex |-> TRUE, val |-> Base64Encode(fr.up.data), exp |-> None]],
   fr |-> [fr EXCEPT !.pc = "r_af_expire"]]
RedisAddFileExpire(r, fr, t) ==
  [st |-> [r EXCEPT !.data[<<fr.sid, fr.fid>>] =
             RedisExpire(r.data[<<fr.sid, fr.fid>>], AbsentData, t)],
   fr |-> [fr EXCEPT !.pc = "r_af_ttl"]]
RedisAddFileTtl(r, fr, t) ==
  [st |-> RefreshTTL(r, fr.sid, t), fr |-> Done(fr, IdRes(fr.fid))]

(* getFile *)
RedisGetFileExists(r, fr) ==
  [st |-> r,
   fr |-> IF ~r.sess[fr.sid].ex THEN Done(fr, Null) ELSE [fr EXCEPT !.pc = "r_gf_hget"]]
RedisGetFileHget(r, fr) ==
  [st |-> r,
   fr |-> IF fr.fid \in DOMAIN r.files[fr.sid].meta
          THEN [fr EXCEPT !.pc = "r_gf_get", !.loc = r.files[fr.sid].meta[fr.fid]]
          ELSE Done(fr, Null)]
(* `if (!dataBase64) return null`: a missing key, and also the empty string *)
RedisGetFileGet(r, fr) ==
  LET key == IF fr.fid \in FileIds THEN r.data[<<fr.sid, fr.fid>>] ELSE AbsentData
  IN [st |-> r,
      fr |-> IF ~key.ex \/ key.val = << >>
             THEN Done([fr EXCEPT !.loc = Null], Null)
             ELSE [fr EXCEPT !.pc = "r_gf_ttl",
                             !.loc = [metadata |-> JsonParse(fr.loc),
                                      data |-> Base64Decode(key.val)]]]
RedisGetFileTtl(r, fr, t) ==
  [st |-> RefreshTTL(r, fr.sid, t),
   fr |-> Done([fr EXCEPT !.loc = Null],
               FileRes(fr.fid, fr.loc.metadata.name, fr.loc.data, fr.loc.metadata.size,
                       ParseDate(fr.loc.metadata.createdAt)))]

(* listFiles *)
RedisListFilesExists(r, fr) ==
  [st |-> r,
   fr |-> IF ~r.sess[fr.sid].ex THEN Done(fr, ListRes({}))
          ELSE [fr EXCEPT !.pc = "r_lf_hgetall"]]
RedisListFilesHgetall(r, fr) ==
  LET filesData == r.files[fr.sid].meta
      items == { [id |-> f, name |-> JsonParse(filesData[f]).name,
                  size |-> JsonParse(filesData[f]).size,
                  lastModified |-> JsonParse(filesData[f]).createdAt] : f \in DOMAIN filesData }
  IN [st |-> r, fr |-> [fr EXCEPT !.pc = "r_lf_ttl", !.loc = [files |-> items]]]
RedisListFilesTtl(r, fr, t) ==
  [st |-> RefreshTTL(r, fr.sid, t),
   fr |-> Done([fr EXCEPT !.loc = Null], ListRes(fr.loc.files))]

----------------------------------------------------------------------------
(* RedisStorage.cleanup: an empty body, the server expires the keys *)
RedisCleanup(r) == r

(* One step of a call, whichever store getStorage() returned *)

(* Variant: isSessionValid refreshes the session it finds *)
MemIsSessionValidCallTouch(m, fr, t) ==
  [st |-> IF m.sessions[fr.sid] = NoRef THEN m
          ELSE [m EXCEPT !.heap[m.sessions[fr.sid]].lastAccessedAt = t],
   fr |-> Done(fr, BoolRes(MemIsSessionValid(m, fr.sid, t)))]

MemIsSessionValidCall(m, fr, t) ==
  [st |-> m, fr |-> Done(fr, BoolRes(MemIsSessionValid(m, fr.sid, t)))]

RedisIsSessionValidCall(r, fr) ==
  [st |-> r, fr |-> Done(fr, BoolRes(RedisIsSessionValid(r, fr.sid)))]

(* The call itself, up to its first await *)
MemEnter(m, fr, t) ==
  CASE fr.op = "createSession" ->
         [st |-> MemCreateSession(m, fr.sid, t), fr |-> Done(fr, SidRes(fr.sid))]
    [] fr.op = "isSessionValid" -> MemIsSessionValidCall(m, fr, t)
    [] OTHER -> [st |-> m, fr |-> MemGetSessionEnter(m, fr, t)]

MemStep(m, fr, t) ==
  CASE fr.pc = "m_valid" -> MemGetSessionResume(m, fr, t)
    [] fr.pc = "m_ret" /\ fr.op = "addFile" -> MemAddFile(m, fr, t)
    [] fr.pc = "m_ret" /\ fr.op = "getFile" -> MemGetFile(m, fr)
    [] fr.pc = "m_ret" /\ fr.op = "listFiles" -> MemListFiles(m, fr)
    [] fr.pc = "m_ret" /\ fr.op = "getSession" -> MemGetSessionReturn(m, fr)

RedisEnter(r, fr, t) ==
  CASE fr.op = "createSession" -> RedisCreateSessionHset(r, fr, t)
    [] fr.op = "isSessionValid" -> RedisIsSessionValidCall(r, fr)
    [] fr.op = "getSession" -> RedisGetSessionHgetall(r, fr)
    [] fr.op = "addFile" -> RedisAddFileExists(r, fr)
    [] fr.op = "getFile" -> RedisGetFileExists(r, fr)
    [] fr.op = "listFiles" -> RedisListFilesExists(r, fr)

RedisStep(r, fr, t) ==
  CASE fr.pc = "r_cs_expire" -> RedisCreateSessionExpire(r, fr, t)
    [] fr.pc = "r_gs_hset" -> RedisGetSessionHset(r, fr, t)
    [] fr.pc = "r_gs_ttl" -> RedisGetSessionTtl(r, fr, t)
    [] fr.pc = "r_gs_files" -> RedisGetSessionFiles(r, fr)
    [] fr.pc = "r_af_hsetsess" -> RedisAddFileHsetSession(r, fr, t)
    [] fr.pc = "r_af_hsetfile" -> RedisAddFileHsetFile(r, fr, t)
    [] fr.pc = "r_af_set" -> RedisAddFileSet(r, fr)
    [] fr.pc = "r_af_expire" -> RedisAddFileExpire(r, fr, t)
    [] fr.pc = "r_af_ttl" -> RedisAddFileTtl(r, fr, t)
    [] fr.pc = "r_gf_hget" -> RedisGetFileHget(r, fr)
    [] fr.pc = "r_gf_get" -> RedisGetFileGet(r, fr)
    [] fr.pc = "r_gf_ttl" -> RedisGetFileTtl(r, fr, t)
    [] fr.pc = "r_lf_hgetall" -> RedisListFilesHgetall(r, fr)
    [] fr.pc = "r_lf_ttl" -> RedisListFilesTtl(r, fr, t)

(* A whole call with nothing in between: every step at time t *)
RECURSIVE MemFinish(_, _, _)
MemFinish(m, fr, t) ==
  IF fr.pc = "done" THEN [st |-> m, fr |-> fr]
  ELSE LET n == MemStep(m, fr, t) IN MemFinish(n.st, n.fr, t)

MemRun(m, fr, t) ==
  LET n == MemEnter(m, fr, t) IN MemFinish(n.st, n.fr, t)

RECURSIVE RedisFinish(_, _, _)
RedisFinish(r, fr, t) ==
  IF fr.pc = "done" THEN [st |-> r, fr |-> fr]
  ELSE LET n == RedisStep(r, fr, t) IN RedisFinish(n.st, n.fr, t)

RedisRun(r, fr, t) ==
  LET n == RedisEnter(r, fr, t) IN RedisFinish(n.st, n.fr, t)

(* What isSessionValid(s) would answer at time t *)
Valid(b, m, r, s, t) ==
  IF b = "memory" THEN MemIsSessionValid(m, s, t) ELSE RedisIsSessionValid(r, s)

(* What getFile(s, f) would answer at time t, were it called with nothing in between *)
WouldGetFile(b, m, r, s, f, t) ==
  IF b = "memory" THEN MemRun(m, NewFrame("getFile", s, f, Null), t).fr.res
  ELSE RedisRun(r, NewFrame("getFile", s, f, Null), t).fr.res

(* What listFiles(s) would answer at time t, were it called with nothing in between *)
WouldListFiles(b, m, r, s, t) ==
  IF b = "memory" THEN MemRun(m, NewFrame("listFiles", s, NoFile, Null), t).fr.res
  ELSE RedisRun(r, NewFrame("listFiles", s, NoFile, Null), t).fr.res

----------------------------------------------------------------------------
(* The state after construction: getStorage() built the configured store *)

(* The store as its constructor leaves it, nothing called yet *)
InitFresh ==
  /\ expiryMs \in ExpiryChoices
  /\ now = 0
  /\ mem = MemInit
  /\ rd = RedisInit
  /\ procs = [p \in Procs |-> IdleFrame]
  /\ nextFile = 1
  /\ calls = 0
  /\ usedSids = {}
  /\ added = EmptyMap
  /\ gone = {}
  /\ pristine = [s \in SessionIds |-> None]
  /\ condemned = {}
  /\ pair = Null

(* No LIBRECHAT_CODE_API_KEY in the environment: authenticate lets every  *)
(* request through                                                        *)
InitStore ==
  /\ InitFresh
  /\ librechatCodeApiKey = << >>

InitCommon ==
  /\ InitStore
  /\ client = Null

Init ==
  /\ backend \in {"memory", "redis"}
  /\ InitCommon

(* RedisStorage reads the expiry only through TtlSeconds, which is the same *)
(* for 1000 and 1500: overlapping calls are run with one of the two.        *)
InitOverlap ==
  /\ Init
  /\ backend = "redis" => expiryMs # 1500

InFlight(fr) == fr.pc \notin {"idle", "done"}

(* History kept beside a step that leaves the store m2, r2 and the frames P2 *)
Commit(P2, m2, r2, p) ==
  /\ procs' = P2
  /\ mem' = MemCollect(m2, P2)
  /\ rd' = r2
  /\ added' = IF P2[p].pc = "done" /\ P2[p].op = "addFile"
              THEN (P2[p].fid :> [sid |-> P2[p].sid, name |-> P2[p].up.name,
                                  data |-> P2[p].up.data, conc |-> P2[p].conc,
                                  onValid |-> P2[p].startValid]) @@ added
              ELSE added
  /\ gone' = gone \cup {f \in DOMAIN added' :
                          ~Valid(backend, mem', rd', added'[f].sid, now)}

(* A caller invokes an operation of the store: the frame runs to its first  *)
(* await, or, when whole, to its return with no other step in between. A     *)
(* caller whose previous call is done has taken its result. Callers and      *)
(* session ids are interchangeable, so a call takes the first caller that is *)
(* free, and "s2" names the second session id that comes up.                 *)
Call(p, op, sid, fid, up, whole) ==
  /\ backend \in {"memory", "redis"}
  /\ ~InFlight(procs[p])
  /\ \A q \in Procs : q < p => InFlight(procs[q])
  /\ sid = "s2" => "s1" \in usedSids
  /\ calls < MaxCalls
  /\ calls' = calls + 1
  /\ LET overlap(q) == /\ q # p /\ op = "addFile" /\ procs[q].op = "addFile"
                       /\ procs[q].sid = sid /\ InFlight(procs[q])
         fr == [NewFrame(op, sid, fid, up) EXCEPT
                  !.startAt = now,
                  !.startValid = Valid(backend, mem, rd, sid, now),
                  !.startExpired = backend = "memory" /\ MemExpiredUnpurged(mem, sid, now),
                  !.seen = IF op = "listFiles" THEN DOMAIN added ELSE {},
                  !.conc = \E q \in Procs : overlap(q)]
         n == IF backend = "memory"
              THEN (IF whole THEN MemRun(mem, fr, now) ELSE MemEnter(mem, fr, now))
              ELSE (IF whole THEN RedisRun(rd, fr, now) ELSE RedisEnter(rd, fr, now))
         P2 == [q \in Procs |-> IF q = p THEN n.fr
                                ELSE IF overlap(q) THEN [procs[q] EXCEPT !.conc = TRUE]
                                ELSE procs[q]]
     IN /\ Commit(P2, IF backend = "memory" THEN n.st ELSE mem,
                      IF backend = "memory" THEN rd ELSE n.st, p)
        /\ condemned' = IF fr.startExpired
                        THEN condemned \cup DOMAIN mem.heap[mem.sessions[sid]].files
                        ELSE condemned
  /\ pristine' = IF op = "createSession" THEN [pristine EXCEPT ![sid] = now]
                 ELSE IF op = "isSessionValid" THEN pristine
                 ELSE [pristine EXCEPT ![sid] = None]
  /\ usedSids' = usedSids \cup {sid}
  /\ nextFile' = IF op = "addFile" THEN nextFile + 1 ELSE nextFile
  /\ UNCHANGED <<backend, expiryMs, librechatCodeApiKey, now, pair, client>>

(* createSession: nanoid() yields an id nothing used before *)
CreateSession(p, S, whole) ==
  \E sid \in S \ usedSids : Call(p, "createSession", sid, NoFile, Null, whole)

IsSessionValid(p, S, whole) ==
  \E sid \in S : Call(p, "isSessionValid", sid, NoFile, Null, whole)

GetSession(p, S, whole) ==
  \E sid \in S : Call(p, "getSession", sid, NoFile, Null, whole)

(* addFile: the file id is the next nanoid() *)
AddFile(p, S, whole) ==
  /\ nextFile <= MaxFiles
  /\ \E sid \in S, up \in Uploads : Call(p, "addFile", sid, nextFile, up, whole)

(* getFile: with an id addFile generated, or with one it never generated *)
GetFile(p, S, whole) ==
  \E sid \in S, fid \in (1..(nextFile - 1)) \cup {NoFile} :
    Call(p, "getFile", sid, fid, Null, whole)

ListFiles(p, S, whole) ==
  \E sid \in S : Call(p, "listFiles", sid, NoFile, Null, whole)

(* A suspended MemoryStorage call resumes *)
MemResume(p, pc, op) ==
  /\ backend = "memory"
  /\ procs[p].pc = pc
  /\ op \in {"any", procs[p].op}
  /\ LET n == MemStep(mem, procs[p], now)
     IN Commit([procs EXCEPT ![p] = n.fr], n.st, rd, p)
  /\ UNCHANGED <<backend, expiryMs, librechatCodeApiKey, now, nextFile, calls, usedSids, pristine, condemned, pair, client>>

MemGetSessionAwait(p) == MemResume(p, "m_valid", "any")
MemAddFileResume(p) == MemResume(p, "m_ret", "addFile")
MemGetFileResume(p) == MemResume(p, "m_ret", "getFile")
MemListFilesResume(p) == MemResume(p, "m_ret", "listFiles")
MemGetSessionResult(p) == MemResume(p, "m_ret", "getSession")

(* The Redis server executes the next command of a suspended RedisStorage call *)
RedisCommand(p, pc) ==
  /\ backend = "redis"
  /\ procs[p].pc = pc
  /\ LET n == RedisStep(rd, procs[p], now)
     IN Commit([procs EXCEPT ![p] = n.fr], mem, n.st, p)
  /\ UNCHANGED <<backend, expiryMs, librechatCodeApiKey, now, nextFile, calls, usedSids, pristine, condemned, pair, client>>

RCreateSessionExpire(p) == RedisCommand(p, "r_cs_expire")
RGetSessionHset(p) == RedisCommand(p, "r_gs_hset")
RGetSessionTtl(p) == RedisCommand(p, "r_gs_ttl")
RGetSessionFiles(p) == RedisCommand(p, "r_gs_files")
RAddFileHsetSession(p) == RedisCommand(p, "r_af_hsetsess")
RAddFileHsetFile(p) == RedisCommand(p, "r_af_hsetfile")
RAddFileSet(p) == RedisCommand(p, "r_af_set")
RAddFileExpire(p) == RedisCommand(p, "r_af_expire")
RAddFileTtl(p) == RedisCommand(p, "r_af_ttl")
RGetFileHget(p) == RedisCommand(p, "r_gf_hget")
RGetFileGet(p) == RedisCommand(p, "r_gf_get")
RGetFileTtl(p) == RedisCommand(p, "r_gf_ttl")
RListFilesHgetall(p) == RedisCommand(p, "r_lf_hgetall")
RListFilesTtl(p) == RedisCommand(p, "r_lf_ttl")

(* Time passes; Redis drops the keys whose expiry time has come *)
Tick ==
  /\ now + TickMs <= MaxTicks * TickMs
  /\ now' = now + TickMs
  /\ rd' = RedisPurge(rd, now')
  /\ gone' = gone \cup {f \in DOMAIN added : ~Valid(backend, mem, rd', added[f].sid, now')}
  /\ UNCHANGED <<backend, expiryMs, librechatCodeApiKey, mem, procs, nextFile, calls, usedSids,
                 added, pristine, condemned, pair, client>>

(* The setInterval sweep: a timer callback, so it runs between, never     *)
(* inside, the microtask chains of MemoryStorage calls.                   *)
Cleanup ==
  /\ backend # "redis"
  /\ \A p \in Procs : ~InFlight(procs[p])
  /\ mem' = MemCollect(MemCleanup(mem, now), procs)
  /\ mem' # mem
  /\ UNCHANGED <<backend, expiryMs, librechatCodeApiKey, now, rd, procs, nextFile, calls, usedSids,
                 added, gone, pristine, condemned, pair, client>>

Invoke(p, S, whole) ==
  \/ CreateSession(p, S, whole)
  \/ IsSessionValid(p, S, whole)
  \/ GetSession(p, S, whole)
  \/ AddFile(p, S, whole)
  \/ GetFile(p, S, whole)
  \/ ListFiles(p, S, whole)

(* The microtask of a suspended MemoryStorage call runs *)
MemoryStep(p) ==
  \/ MemGetSessionAwait(p)
  \/ MemAddFileResume(p)
  \/ MemGetFileResume(p)
  \/ MemListFilesResume(p)
  \/ MemGetSessionResult(p)

(* The reply to the pending command of a RedisStorage call arrives *)
RedisReply(p) ==
  \/ RCreateSessionExpire(p)
  \/ RGetSessionHset(p)
  \/ RGetSessionTtl(p)
  \/ RGetSessionFiles(p)
  \/ RAddFileHsetSession(p)
  \/ RAddFileHsetFile(p)
  \/ RAddFileSet(p)
  \/ RAddFileExpire(p)
  \/ RAddFileTtl(p)
  \/ RGetFileHget(p)
  \/ RGetFileGet(p)
  \/ RGetFileTtl(p)
  \/ RListFilesHgetall(p)
  \/ RListFilesTtl(p)

ProcStep(p, S) == Invoke(p, S, FALSE) \/ MemoryStep(p) \/ RedisReply(p)

(* Calls that overlap: two callers on one session id *)
Next == Tick \/ Cleanup \/ \E p \in Procs : ProcStep(p, {"s1"})
Spec == InitOverlap /\ [][Next]_vars

(* MemoryStorage as the bridge calls it: every call is awaited before the  *)
(* next, on either session id; the clock may move on while one is suspended *)
InitMemory == backend = "memory" /\ InitCommon
NextMemory == Tick \/ Cleanup \/ Invoke(1, SessionIds, FALSE) \/ MemoryStep(1)
SpecMemory == InitMemory /\ [][NextMemory]_vars

(* Calls that overlap, on different session ids as well *)
NextIsolation == Tick \/ Cleanup \/ \E p \in Procs : ProcStep(p, SessionIds)
SpecIsolation == InitOverlap /\ [][NextIsolation]_vars

(* Calls one after another, each returning before the clock moves on *)
NextWhole == Tick \/ Cleanup \/ Invoke(1, SessionIds, TRUE)
SpecWhole == Init /\ [][NextWhole]_vars

----------------------------------------------------------------------------
(* Both stores side by side, given the same calls at the same times, each   *)
(* call run to its end; nanoid() hands both the same ids.                   *)

InitPair ==
  /\ backend = "paired"
  /\ InitCommon

PairCall(op, sid, fid, up) ==
  /\ backend = "paired"
  /\ calls < MaxCalls
  /\ sid = "s2" => "s1" \in usedSids
  /\ LET fr == NewFrame(op, sid, fid, up)
         a == MemRun(mem, fr, now)
         b == RedisRun(rd, fr, now)
     IN /\ mem' = MemCollect(a.st, procs)
        /\ rd' = b.st
        /\ pair' = [kind |-> "pair", op |-> op, sid |-> sid,
                    memory |-> a.fr.res, redis |-> b.fr.res]
  /\ calls' = calls + 1
  /\ usedSids' = usedSids \cup {sid}
  /\ nextFile' = IF op = "addFile" THEN nextFile + 1 ELSE nextFile
  /\ UNCHANGED <<backend, expiryMs, librechatCodeApiKey, now, procs, added, gone, pristine, condemned, client>>

PairCreateSession ==
  \E sid \in SessionIds \ usedSids : PairCall("createSession", sid, NoFile, Null)

PairAddFile ==
  /\ nextFile <= MaxFiles
  /\ \E sid \in SessionIds, up \in Uploads : PairCall("addFile", sid, nextFile, up)

PairGetFile ==
  \E sid \in SessionIds, fid \in (1..(nextFile - 1)) \cup {NoFile} :
    PairCall("getFile", sid, fid, Null)

PairListFiles ==
  \E sid \in SessionIds : PairCall("listFiles", sid, NoFile, Null)

PairIsSessionValid ==
  \E sid \in SessionIds : PairCall("isSessionValid", sid, NoFile, Null)

NextPair ==
  \/ Tick
  \/ Cleanup
  \/ PairCreateSession
  \/ PairAddFile
  \/ PairGetFile
  \/ PairListFiles
  \/ PairIsSessionValid

SpecPair == InitPair /\ [][NextPair]_vars

----------------------------------------------------------------------------
(* Properties *)

Quiet == \A p \in Procs : ~InFlight(procs[p])

Finished(p, op) == procs[p].pc = "done" /\ procs[p].op = op

(* The step is one of caller p's call: the call itself or a resumption *)
FirstFree == CHOOSE p \in Procs : ~InFlight(procs[p]) /\ \A q \in Procs : q < p => InFlight(procs[q])
StepBy(p) ==
  \/ procs'[p] # procs[p]
  \/ calls' # calls /\ procs' = procs /\ ~InFlight(procs[p]) /\ p = FirstFree

ListedIds(res) == {i.id : i \in res.items}

(* C1: addFile(s, n, b) on a valid session returning id, then              *)
(* getFile(s, id) while s has not expired, returns a file with bytes b,    *)
(* name n and size the length of b, in either backend.                     *)
C1_RoundTrip ==
  \A p \in Procs :
    ( /\ Finished(p, "getFile")
      /\ procs[p].fid \in DOMAIN added
      /\ added[procs[p].fid].sid = procs[p].sid
      /\ added[procs[p].fid].onValid
      /\ procs[p].fid \notin gone )
    => /\ procs[p].res.kind = "file"
       /\ procs[p].res.data = added[procs[p].fid].data
       /\ procs[p].res.name = added[procs[p].fid].name
       /\ procs[p].res.size = Len(added[procs[p].fid].data)

(* C2: two addFile calls on one session id that overlap both return an id, *)
(* and a later listFiles on that id lists both files.                      *)
C2_OverlappingAddsListed ==
  \A p \in Procs :
    Finished(p, "listFiles") =>
      \A f \in procs[p].seen :
        (added[f].sid = procs[p].sid /\ added[f].conc /\ f \notin gone)
        => f \in ListedIds(procs[p].res)

(* C3: the two backends answer every call alike and hold the same sessions *)
(* valid at every time.                                                    *)
C3_BackendsEquivalent ==
  backend = "paired" =>
    /\ pair # Null => pair.memory = pair.redis
    /\ \A s \in SessionIds : MemIsSessionValid(mem, s, now) = RedisIsSessionValid(rd, s)

(* C4: in Redis, while the session key exists, the payload key of every    *)
(* file in its file list exists too (no call in flight).                   *)
C4_PayloadLivesWithSession ==
  (backend = "redis" /\ Quiet) =>
    \A s \in SessionIds :
      rd.sess[s].ex => \A f \in DOMAIN rd.files[s].meta : rd.data[<<s, f>>].ex

(* C5: in the in-process store a session created at T and not accessed     *)
(* since is valid exactly while now - T < TTL, swept or not, and that is   *)
(* what an isSessionValid call answers.                                    *)
C5_FreshSessionValidity ==
  backend = "memory" =>
    \A s \in SessionIds :
      pristine[s] # None =>
        /\ MemIsSessionValid(mem, s, now) <=> (now - pristine[s] < expiryMs)
        /\ \A p \in Procs :
             (Finished(p, "isSessionValid") /\ procs[p].sid = s)
             => procs[p].res = BoolRes(procs[p].startAt - pristine[s] < expiryMs)

C5_Witness ==
  /\ backend = "memory"
  /\ \E p \in Procs :
       /\ Finished(p, "isSessionValid")
       /\ pristine[procs[p].sid] # None
       /\ procs[p].startAt - pristine[procs[p].sid] = expiryMs
       /\ procs[p].res = BoolRes(FALSE)
       /\ mem.sessions[procs[p].sid] # NoRef

C7_Adoption ==
  \A p \in Procs :
    (Finished(p, "addFile") /\ ~procs[p].startValid /\ now = procs[p].startAt)
    => /\ procs[p].res = IdRes(procs[p].fid)
       /\ Valid(backend, mem, rd, procs[p].sid, now)
       /\ ListedIds(WouldListFiles(backend, mem, rd, procs[p].sid, now)) = {procs[p].fid}

(* C8: listFiles called on an id that is not valid returns the empty list, *)
(* and no step of that call makes the id valid.                            *)
C8_ListFilesOnAbsent ==
  /\ [](\A p \in Procs :
          (Finished(p, "listFiles") /\ ~procs[p].startValid)
          => procs[p].res = ListRes({}))
  /\ [][\A p \in Procs :
          (StepBy(p) /\ procs'[p].op = "listFiles" /\ ~procs'[p].startValid)
          => (Valid(backend, mem', rd', procs'[p].sid, now')
              => Valid(backend, mem, rd, procs'[p].sid, now))]_vars

C8_Witness ==
  \E p \in Procs :
    /\ Finished(p, "listFiles")
    /\ ~procs[p].startValid
    /\ procs[p].startExpired
    /\ \E f \in DOMAIN added : added[f].sid = procs[p].sid

(* C9: an isSessionValid call leaves the whole store as it was: sessions,  *)
(* last-accessed times, files, and in Redis every key and its expiry.      *)
C9_IsSessionValidPure ==
  [][\A p \in Procs :
       (StepBy(p) /\ procs'[p].op = "isSessionValid")
       => (mem' = mem /\ rd' = rd)]_vars

C9_Witness ==
  \E p \in Procs :
    /\ Finished(p, "isSessionValid")
    /\ procs[p].res = BoolRes(TRUE)
    /\ procs[p].startAt > 0

(* C10: after a successful addFile, getFile or listFiles on a valid        *)
(* session at time t, and no call since, the session is valid exactly      *)
(* while now - t < TTL, and until then it keeps the file added or read.    *)
C10_AccessRefreshes ==
  \A p \in Procs :
    ( /\ procs[p].pc = "done"
      /\ procs[p].op \in {"addFile", "getFile", "listFiles"}
      /\ procs[p].startValid
      /\ procs[p].op = "getFile" => procs[p].res # Null )
    => /\ Valid(backend, mem, rd, procs[p].sid, now) <=> (now - procs[p].startAt < expiryMs)
       /\ (now - procs[p].startAt < expiryMs) =>
            /\ procs[p].op = "getFile" =>
                 WouldGetFile(backend, mem, rd, procs[p].sid, procs[p].fid, now) # Null
            /\ procs[p].op = "addFile" =>
                 procs[p].fid \in ListedIds(WouldListFiles(backend, mem, rd, procs[p].sid, now))

(* All the store holds for session id s, and whether s is valid *)
SessionState(m, r, s, t) ==
  [valid |-> Valid(backend, m, r, s, t),
   session |-> IF m.sessions[s] = NoRef THEN Null ELSE m.heap[m.sessions[s]],
   sess |-> r.sess[s],
   files |-> r.files[s],
   data |-> [f \in FileIds |-> r.data[<<s, f>>]]]

C12_FilesImmutable ==
  [][\A s \in SessionIds, f \in FileIds :
       ( /\ WouldGetFile(backend, mem, rd, s, f, now) # Null
         /\ Valid(backend, mem', rd', s, now') )
       => WouldGetFile(backend, mem', rd', s, f, now')
            = WouldGetFile(backend, mem, rd, s, f, now)]_vars

----------------------------------------------------------------------------
(* Judge0Client (src/unnamed/part_001). Text is a sequence of character    *)
(* codes. A field of the backend's JSON reply is absent (null or missing)  *)
(* or a string.                                                            *)

Absent == [present |-> FALSE, val |-> << >>]
Str(v) == [present |-> TRUE, val |-> v]

(* JavaScript truthiness of a string field: null and "" are falsy *)
Truthy(f) == f.present /\ f.val # << >>

(* Buffer.toString('utf-8'): an ASCII byte is its character, a byte that   *)
(* starts no valid sequence becomes U+FFFD.                                *)
Utf8Decode(b) == [i \in 1..Len(b) |-> IF b[i] < 128 THEN b[i] ELSE 65533]

(* decodeBase64 *)
DecodeBase64(s) == Utf8Decode(Base64Decode(s))

(* String.prototype.trim *)
WhiteSpace == {9, 10, 11, 12, 13, 32}
RECURSIVE TrimStart(_)
TrimStart(t) ==
  IF t # << >> /\ Head(t) \in WhiteSpace THEN TrimStart(Tail(t)) ELSE t
RECURSIVE TrimEnd(_)
TrimEnd(t) ==
  IF t # << >> /\ t[Len(t)] \in WhiteSpace THEN TrimEnd(SubSeq(t, 1, Len(t) - 1)) ELSE t
Trim(t) == TrimEnd(TrimStart(t))

(* 'FYI: judge0-bridge replaces /mnt/data to ./\n\n' *)
Notice ==
  <<70, 89, 73, 58, 32, 106, 117, 100, 103, 101, 48, 45, 98, 114, 105,
    100, 103, 101, 32, 114, 101, 112, 108, 97, 99, 101, 115, 32, 47, 109,
    110, 116, 47, 100, 97, 116, 97, 32, 116, 111, 32, 46, 47, 10, 10>>
(* 'Compilation error' *)
CompilationErrorText ==
  <<67, 111, 109, 112, 105, 108, 97, 116, 105, 111, 110, 32, 101, 114,
    114, 111, 114>>
(* 'Internal execution error' *)
InternalErrorText ==
  <<73, 110, 116, 101, 114, 110, 97, 108, 32, 101, 120, 101, 99, 117,
    116, 105, 111, 110, 32, 101, 114, 114, 111, 114>>

(* translateResponse: stdout, the notice first when the paths were rewritten *)
TranslateStdout(j0, occurred) ==
  (IF occurred THEN Notice ELSE << >>)
    \o (IF Truthy(j0.stdout) THEN DecodeBase64(j0.stdout.val) ELSE << >>)

(* Variant: stderr is taken from the stderr field *)
StderrField(j0) ==
  IF Truthy(j0.stderr) THEN DecodeBase64(j0.stderr.val) ELSE << >>

(* case 6 *)
CompileErrorStderr(j0) ==
  IF Truthy(j0.compile_output) THEN DecodeBase64(j0.compile_output.val)
  ELSE CompilationErrorText

(* case 3, 4 and default *)
DefaultStderr(j0) ==
  IF Truthy(j0.stderr) THEN DecodeBase64(j0.stderr.val) ELSE << >>

(* Variant: the status description is left out *)
RuntimeErrorStderrPlain(j0) ==
  IF Truthy(j0.stderr) THEN DecodeBase64(j0.stderr.val) ELSE << >>

(* case 5, 7, 8, 9, 10, 11, 12, 14 *)
RuntimeErrorStderr(j0) ==
  LET stderr == IF Truthy(j0.stderr) THEN DecodeBase64(j0.stderr.val) ELSE << >>
  IN IF j0.status.present /\ Truthy(j0.status.description)
     THEN Trim(stderr \o <<10, 91>> \o j0.status.description.val \o <<93>>)
     ELSE stderr

(* Variant: no fallback text when the message is missing *)
MessageText(j0) ==
  IF Truthy(j0.message) THEN DecodeBase64(j0.message.val) ELSE << >>

(* case 13 *)
InternalErrorStderr(j0) ==
  IF Truthy(j0.message) THEN DecodeBase64(j0.message.val) ELSE InternalErrorText

(* Variant: an unlisted status yields nothing *)
TranslateStderrStrict(j0) ==
  IF j0.status.present /\ j0.status.id \in {3, 4} THEN DefaultStderr(j0) ELSE << >>

(* translateResponse: the switch on j0Response.status?.id *)
TranslateStderr(j0) ==
  LET statusId == IF j0.status.present THEN j0.status.id ELSE None
  IN CASE statusId = 6 -> CompileErrorStderr(j0)
       [] statusId \in {5, 7, 8, 9, 10, 11, 12, 14} -> RuntimeErrorStderr(j0)
       [] statusId = 13 -> InternalErrorStderr(j0)
       [] OTHER -> DefaultStderr(j0)

(* The replies the classification is applied to *)
MaxStatusId == 15
Outputs == {<<101>>, <<32, 101, 10>>, <<200, 101>>}
Fields == {Absent, Str(<< >>)} \cup {Str(Base64Encode(b)) : b \in Outputs}
Descriptions == {Absent, Str(<< >>), Str(<<84, 76, 69>>)}
Statuses ==
  {[present |-> FALSE, id |-> None, description |-> Absent]}
    \cup [present : {TRUE}, id : 1..MaxStatusId, description : Descriptions]
Judge0Responses ==
  [status : Statuses, stdout : Fields \ {Str(<< >>)}, stderr : Fields,
   compile_output : Fields \ {Str(Base64Encode(<<200, 101>>))},
   message : Fields \ {Str(Base64Encode(<<32, 101, 10>>))}]

InitTranslate ==
  /\ backend = "memory"
  /\ InitStore
  /\ expiryMs = 1000
  /\ \E j0 \in Judge0Responses, occurred \in BOOLEAN :
       client = [kind |-> "reply", j0 |-> j0, occurred |-> occurred,
                 stdout |-> << >>, stderr |-> << >>]

(* translateResponse, lines 139-183: the stdout and stderr of the response *)
Classify ==
  /\ client.kind = "reply"
  /\ client' = [client EXCEPT !.kind = "translated",
                              !.stdout = TranslateStdout(client.j0, client.occurred),
                              !.stderr = TranslateStderr(client.j0)]
  /\ UNCHANGED <<backend, expiryMs, librechatCodeApiKey, now, mem, rd, procs, nextFile, calls,
                 usedSids, added, gone, pristine, condemned, pair>>

NextTranslate == Classify
SpecTranslate == InitTranslate /\ [][NextTranslate]_vars

Translated == client.kind = "translated"
StatusIs(ids) == client.j0.status.present /\ client.j0.status.id \in ids

(* C14: for status 6 the response stderr is the decoded compile_output     *)
(* when that field is populated and 'Compilation error' when it is absent  *)
(* or empty; stdout is what an accepted reply (status 3) with the same     *)
(* backend stdout gets.                                                    *)
C14_CompileError ==
  (Translated /\ StatusIs({6})) =>
    /\ client.stderr =
         IF client.j0.compile_output.present /\ client.j0.compile_output.val # << >>
         THEN Utf8Decode(Base64Decode(client.j0.compile_output.val))
         ELSE CompilationErrorText
    /\ client.stdout =
         TranslateStdout([client.j0 EXCEPT !.status.id = 3], client.occurred)

C14_Witness ==
  /\ Translated /\ StatusIs({6})
  /\ client.j0.compile_output = Str(Base64Encode(<<32, 101, 10>>))
  /\ client.j0.stderr = Str(Base64Encode(<<101>>))
  /\ client.stderr = <<32, 101, 10>>

RuntimeErrorIds == {5, 7, 8, 9, 10, 11, 12, 14}
DecodedStderr ==
  IF client.j0.stderr.present /\ client.j0.stderr.val # << >>
  THEN Utf8Decode(Base64Decode(client.j0.stderr.val)) ELSE << >>
HasDescription ==
  client.j0.status.description.present /\ client.j0.status.description.val # << >>

(* C15 as stated: for status 5, 7..12 and 14 the response stderr is the     *)
(* decoded backend stderr followed by the status description on its own    *)
(* line (alone on the line, or inside square brackets; as the only line    *)
(* when the backend stderr is empty), and the decoded stderr alone when    *)
(* there is no description.                                                *)
C15_DescriptionAppended ==
  (Translated /\ StatusIs(RuntimeErrorIds)) =>
    IF HasDescription
    THEN LET desc == client.j0.status.description.val
             line == {desc, <<91>> \o desc \o <<93>>}
         IN \/ \E l \in line : client.stderr = DecodedStderr \o <<10>> \o l
            \/ DecodedStderr = << >> /\ client.stderr \in line
    ELSE client.stderr = DecodedStderr

(* C15 amended: for status 5, 7..12 and 14 with a non-empty description    *)
(* the response stderr is the decoded backend stderr, a newline and the    *)
(* description in square brackets, the whole of it with leading and        *)
(* trailing whitespace removed; without a description it is the decoded    *)
(* backend stderr unchanged.                                               *)
C15_DescriptionBracketedTrimmed ==
  (Translated /\ StatusIs(RuntimeErrorIds)) =>
    client.stderr =
      IF HasDescription
      THEN Trim(DecodedStderr \o <<10, 91>> \o client.j0.status.description.val \o <<93>>)
      ELSE DecodedStderr

C15_Witness ==
  /\ Translated /\ StatusIs({5})
  /\ client.j0.stderr = Str(Base64Encode(<<32, 101, 10>>))
  /\ client.j0.status.description = Str(<<84, 76, 69>>)
  /\ client.stderr = <<101, 10, 10, 91, 84, 76, 69, 93>>

(* C16: for status 13 the response stderr is the decoded backend message   *)
(* when there is one and 'Internal execution error' otherwise; the          *)
(* backend's stderr field has no influence on it.                           *)
C16_InternalError ==
  (Translated /\ StatusIs({13})) =>
    /\ client.stderr =
         IF client.j0.message.present /\ client.j0.message.val # << >>
         THEN Utf8Decode(Base64Decode(client.j0.message.val))
         ELSE InternalErrorText
    /\ \A f \in Fields :
         TranslateStderr([client.j0 EXCEPT !.stderr = f]) = client.stderr

C16_Witness ==
  /\ Translated /\ StatusIs({13})
  /\ ~client.j0.message.present
  /\ client.j0.stderr = Str(Base64Encode(<<101>>))
  /\ client.stderr = InternalErrorText

(* C17: every status id, listed or not, and a missing status get a         *)
(* response; outside 5..14 its stderr is the decoded backend stderr (empty *)
(* when absent); for every status its stdout ends with the whole decoded   *)
(* backend stdout, preceded by nothing or by the notice.                   *)
C17_ClassificationTotal ==
  /\ client.kind = "reply" => ENABLED Classify
  /\ Translated =>
       /\ ~StatusIs(5..14) => client.stderr = DecodedStderr
       /\ LET out == IF client.j0.stdout.present /\ client.j0.stdout.val # << >>
                     THEN Utf8Decode(Base64Decode(client.j0.stdout.val)) ELSE << >>
          IN client.stdout \in {out, Notice \o out}

C17_Witness ==
  /\ Translated
  /\ StatusIs({MaxStatusId})
  /\ client.j0.stderr = Str(Base64Encode(<<200, 101>>))
  /\ client.stderr = <<65533, 101>>
  /\ client.j0.stdout = Str(Base64Encode(<<32, 101, 10>>))
  /\ client.stdout = <<32, 101, 10>>

----------------------------------------------------------------------------
(* Judge0Client.execute: the path rewrite, on the characters of the source *)

(* '/mnt/data' *)
MountPrefix == <<47, 109, 110, 116, 47, 100, 97, 116, 97>>

(* \w *)
IsWordChar(c) == c \in (48..57) \cup (65..90) \cup (97..122) \cup {95}

(* '/mnt/data' stands at index i *)
PrefixAt(s, i) ==
  /\ i >= 1
  /\ i + Len(MountPrefix) - 1 <= Len(s)
  /\ SubSeq(s, i, i + Len(MountPrefix) - 1) = MountPrefix

(* /(?<!\.)\/mnt\/data\// (slash) and /(?<!\.)\/mnt\/data\b/ match at i *)
MatchAt(s, i, slash) ==
  /\ PrefixAt(s, i)
  /\ i = 1 \/ s[i - 1] # 46
  /\ LET j == i + Len(MountPrefix)
     IN IF slash THEN j <= Len(s) /\ s[j] = 47
        ELSE j > Len(s) \/ ~IsWordChar(s[j])

(* String.prototype.replace with a /g pattern: matches are taken left to   *)
(* right without overlap, the lookbehind looking at the string searched    *)
RECURSIVE ReplaceFrom(_, _, _)
ReplaceFrom(s, i, slash) ==
  IF i > Len(s) THEN << >>
  ELSE IF MatchAt(s, i, slash)
       THEN (IF slash THEN <<46, 47>> ELSE <<46>>)
              \o ReplaceFrom(s, i + Len(MountPrefix) + (IF slash THEN 1 ELSE 0), slash)
       ELSE <<s[i]>> \o ReplaceFrom(s, i + 1, slash)

(* Variant: only the trailing-slash form is replaced *)
TranslateCodeSlashOnly(code) == ReplaceFrom(code, 1, TRUE)

(* translatedCode *)
TranslateCode(code) == ReplaceFrom(ReplaceFrom(code, 1, TRUE), 1, FALSE)

(* pathTranslationOccurred = pathPattern.test(code) *)
PathTranslationOccurred(code) ==
  \E i \in 1..Len(code) : MatchAt(code, i, TRUE) \/ MatchAt(code, i, FALSE)

(* The submitted sources: pieces of text put one after the other *)
MaxPieces == 5
Pieces == {MountPrefix, Tail(MountPrefix), <<47>>, <<46>>, <<120>>, <<45>>, <<32>>}
RECURSIVE Sources(_)
Sources(n) ==
  IF n = 0 THEN {<< >>}
  ELSE LET shorter == Sources(n - 1)
       IN shorter \cup {q \o c : q \in Pieces, c \in shorter}

InitRewrite ==
  /\ backend = "memory"
  /\ InitStore
  /\ expiryMs = 1000
  /\ \E code \in Sources(MaxPieces) :
       client = [kind |-> "code", code |-> code, translatedCode |-> << >>,
                 occurred |-> FALSE]

(* execute, lines 68-73 *)
Rewrite ==
  /\ client.kind = "code"
  /\ client' = [client EXCEPT !.kind = "rewritten",
                              !.translatedCode = TranslateCode(client.code),
                              !.occurred = PathTranslationOccurred(client.code)]
  /\ UNCHANGED <<backend, expiryMs, librechatCodeApiKey, now, mem, rd, procs, nextFile, calls,
                 usedSids, added, gone, pristine, condemned, pair>>

NextRewrite == Rewrite
SpecRewrite == InitRewrite /\ [][NextRewrite]_vars

Rewritten == client.kind = "rewritten"

(* What ends a path in the source text: a blank or a quote *)
Delimiters == {32, 34, 39}

(* '/mnt/data' at index i is a whole leading part of a path *)
BoundaryAt(s, i) ==
  /\ PrefixAt(s, i)
  /\ i = 1 \/ s[i - 1] \in Delimiters
  /\ LET j == i + Len(MountPrefix)
     IN j > Len(s) \/ s[j] \in {47} \cup Delimiters

(* '/mnt/data' at index i is part of a longer path segment *)
InsideSegmentAt(s, i) ==
  /\ PrefixAt(s, i)
  /\ LET j == i + Len(MountPrefix)
     IN \/ i > 1 /\ s[i - 1] \notin {47} \cup Delimiters
        \/ j <= Len(s) /\ s[j] \notin {47} \cup Delimiters

(* s with '/mnt/data' replaced by '.' wherever it is a whole leading part *)
RECURSIVE SegmentRewrite(_, _)
SegmentRewrite(s, i) ==
  IF i > Len(s) THEN << >>
  ELSE IF BoundaryAt(s, i)
       THEN <<46>> \o SegmentRewrite(s, i + Len(MountPrefix))
       ELSE <<s[i]>> \o SegmentRewrite(s, i + 1)

(* C18: every '/mnt/data' standing at a path-segment boundary is replaced, *)
(* '/mnt/data/' by './' and a bare '/mnt/data' by '.': a source whose      *)
(* occurrences all stand at a boundary is sent with exactly these          *)
(* replacements made, and no source sent to the backend still has          *)
(* '/mnt/data' at a boundary.                                              *)
C18_BoundaryRewritten ==
  Rewritten =>
    /\ \A i \in 1..Len(client.translatedCode) : ~BoundaryAt(client.translatedCode, i)
    /\ (\A i \in 1..Len(client.code) :
          PrefixAt(client.code, i) => BoundaryAt(client.code, i))
       => client.translatedCode = SegmentRewrite(client.code, 1)

C18_Witness ==
  /\ Rewritten
  /\ client.code = MountPrefix \o <<47, 120, 32>> \o MountPrefix
  /\ client.translatedCode = <<46, 47, 120, 32, 46>>

(* C19: a source in which every '/mnt/data' is part of a longer path       *)
(* segment (a non-separator character right before it, or a character      *)
(* other than '/' or the end of the path right after it) is sent unchanged *)
C19_InsideSegmentUntouched ==
  ( /\ Rewritten
    /\ \A i \in 1..Len(client.code) :
         PrefixAt(client.code, i) => InsideSegmentAt(client.code, i) )
  => client.translatedCode = client.code

----------------------------------------------------------------------------
(* extractZip (src/src/utils.ts): the entries of the backend's archive that *)
(* become output files. Names are sequences of character codes.            *)

(* JUDGE0_ARTIFACTS *)
JUDGE0_ARTIFACTS ==
  { <<115, 99, 114, 105, 112, 116, 46, 112, 121>>,
    <<115, 99, 114, 105, 112, 116, 46, 106, 115>>,
    <<115, 99, 114, 105, 112, 116, 46, 116, 115>>,
    <<109, 97, 105, 110, 46, 99>>,
    <<109, 97, 105, 110, 46, 99, 112, 112>>,
    <<77, 97, 105, 110, 46, 106, 97, 118, 97>>,
    <<115, 99, 114, 105, 112, 116, 46, 112, 104, 112>>,
    <<109, 97, 105, 110, 46, 114, 115>>,
    <<109, 97, 105, 110, 46, 103, 111>>,
    <<109, 97, 105, 110, 46, 100>>,
    <<109, 97, 105, 110, 46, 102, 57, 48>>,
    <<115, 99, 114, 105, 112, 116, 46, 114>>,
    <<114, 117, 110, 46, 115, 104>>,
    <<99, 111, 109, 112, 105, 108, 101, 46, 115, 104>> }

(* entry.entryName.split('/').pop() || entry.entryName *)
FlatName(entryName) ==
  LET RECURSIVE LastSegment(_)
      LastSegment(n) ==
        IF \E i \in 1..Len(n) : n[i] = 47
        THEN LastSegment(SubSeq(n, (CHOOSE i \in 1..Len(n) : n[i] = 47) + 1, Len(n)))
        ELSE n
  IN IF LastSegment(entryName) # << >> THEN LastSegment(entryName) ELSE entryName

(* Variant: names are compared without regard to case *)
SkipEntryAnyCase(e, inputFileNames) ==
  LET LowerCase(n) == [i \in 1..Len(n) |-> IF n[i] \in 65..90 THEN n[i] + 32 ELSE n[i]]
  IN \/ e.isDirectory
     \/ e.entryName # << >> /\ e.entryName[1] = 46
     \/ LowerCase(FlatName(e.entryName)) \in {LowerCase(a) : a \in JUDGE0_ARTIFACTS}
     \/ LowerCase(FlatName(e.entryName)) \in {LowerCase(a) : a \in inputFileNames}

(* The continue statements of the loop over zip.getEntries() *)
SkipEntry(e, inputFileNames) ==
  \/ e.isDirectory
  \/ e.entryName # << >> /\ e.entryName[1] = 46
  \/ FlatName(e.entryName) \in JUDGE0_ARTIFACTS
  \/ FlatName(e.entryName) \in inputFileNames

(* extractZip on an archive that can be read *)
RECURSIVE ExtractZip(_, _)
ExtractZip(entries, inputFileNames) ==
  IF entries = << >> THEN << >>
  ELSE (IF SkipEntry(Head(entries), inputFileNames) THEN << >>
        ELSE <<[name |-> FlatName(Head(entries).entryName), data |-> Head(entries).data]>>)
       \o ExtractZip(Tail(entries), inputFileNames)

(* The archives extractZip is applied to: up to MaxEntries of these entries, *)
(* each holding its own bytes, in the order given here                      *)
MaxEntries == 4
ZipArchives ==
  LET ZipEntries ==
      << [entryName |-> <<115, 99, 114, 105, 112, 116, 46, 112, 121>>, isDirectory |-> FALSE, data |-> <<1>>],
      [entryName |-> <<114, 117, 110, 46, 115, 104>>, isDirectory |-> FALSE, data |-> <<2>>],
      [entryName |-> <<105, 110, 112, 117, 116, 46, 99, 115, 118>>, isDirectory |-> FALSE, data |-> <<3>>],
      [entryName |-> <<114, 101, 115, 117, 108, 116, 46, 99, 115, 118>>, isDirectory |-> FALSE, data |-> <<4>>],
      [entryName |-> <<83, 99, 114, 105, 112, 116, 46, 112, 121>>, isDirectory |-> FALSE, data |-> <<5>>],
      [entryName |-> <<115, 117, 98, 47, 109, 97, 105, 110, 46, 99>>, isDirectory |-> FALSE, data |-> <<6>>],
      [entryName |-> <<115, 117, 98, 47, 114, 101, 115, 117, 108, 116, 46, 99, 115, 118>>, isDirectory |-> FALSE, data |-> <<7>>],
      [entryName |-> <<46, 101, 110, 118>>, isDirectory |-> FALSE, data |-> <<8>>],
      [entryName |-> <<46, 99, 97, 99, 104, 101, 47, 111, 117, 116, 46, 116, 120, 116>>, isDirectory |-> FALSE, data |-> <<9>>],
      [entryName |-> <<115, 117, 98, 47, 46, 101, 110, 118>>, isDirectory |-> FALSE, data |-> <<10>>],
      [entryName |-> <<111, 117, 116, 47>>, isDirectory |-> TRUE, data |-> <<11>>],
      [entryName |-> <<73, 110, 112, 117, 116, 46, 99, 115, 118>>, isDirectory |-> FALSE, data |-> <<12>>] >>
      RECURSIVE Pick(_, _)
      Pick(S, i) ==
        IF i > Len(ZipEntries) THEN << >>
        ELSE (IF i \in S THEN <<ZipEntries[i]>> ELSE << >>) \o Pick(S, i + 1)
  IN {Pick(S, 1) : S \in {T \in SUBSET (1..Len(ZipEntries)) : Cardinality(T) <= MaxEntries}}

InitExtract ==
  /\ backend = "memory"
  /\ InitStore
  /\ expiryMs = 1000
  /\ \E z \in ZipArchives, names \in SUBSET {<<105, 110, 112, 117, 116, 46, 99, 115, 118>>, <<111, 117, 116, 46, 116, 120, 116>>} :
       client = [kind |-> "archive", entries |-> z, inputFileNames |-> names,
                 extractedFiles |-> << >>]

(* translateResponse, line 188 *)
Extract ==
  /\ client.kind = "archive"
  /\ client' = [client EXCEPT
                  !.kind = "extracted",
                  !.extractedFiles = ExtractZip(client.entries, client.inputFileNames)]
  /\ UNCHANGED <<backend, expiryMs, librechatCodeApiKey, now, mem, rd, procs, nextFile, calls,
                 usedSids, added, gone, pristine, condemned, pair>>

SpecExtract == InitExtract /\ [][Extract]_vars

(* The entry at index i of the archive is among the extracted files *)
Kept(i) ==
  \E k \in 1..Len(client.extractedFiles) :
    client.extractedFiles[k] = [name |-> FlatName(client.entries[i].entryName),
                                data |-> client.entries[i].data]

----------------------------------------------------------------------------
(* The bridge: the routes of src/unnamed/part_000 over Judge0Client.execute *)
(* and the store. One request is served at a time; the clock may advance   *)
(* and the sweep may run wherever the handler waits for I/O.               *)

(* One call of the store run to its return *)
StoreCall(m, r, op, sid, fid, up, t) ==
  LET OfMemory(n) == [mem |-> MemCollect(n.st, procs), rd |-> r, res |-> n.fr.res]
      OfRedis(n) == [mem |-> m, rd |-> n.st, res |-> n.fr.res]
  IN IF backend = "memory"
     THEN OfMemory(MemRun(m, NewFrame(op, sid, fid, up), t))
     ELSE OfRedis(RedisRun(r, NewFrame(op, sid, fid, up), t))

(* nanoid(): 21 characters out of A-Za-z0-9_-, here the text of the ids    *)
(* the model names s1, s2 and 1, 2, ...                                    *)
SessionIdText(sid) ==
  <<86, 49, 83, 116, 71, 88, 82, 56, 95, 90, 53, 106, 100, 72, 105, 54, 66, 45, 109, 121>> \o <<IF sid = "s1" THEN 45 ELSE 95>>
FileIdText(fid) ==
  <<107, 80, 45, 51, 120, 95, 81, 97, 55, 76, 109, 78, 48, 114, 84, 117, 89, 119, 50, 99>> \o <<48 + fid>>

(* Variant: the parts are joined without a separator *)
CompoundNameJoined(sid, fid) == SessionIdText(sid) \o FileIdText(fid)

(* `${session_id}/${file.id}` *)
CompoundName(sid, fid) == SessionIdText(sid) \o <<47>> \o FileIdText(fid)

(* Variant: inherited property names are not language codes *)
IsOwnLanguage(lang) ==
  lang \in {"py", "js", "ts", "c", "cpp", "java", "php", "rs", "go", "d", "f90", "r"}

(* isValidLanguage: lang in LANGUAGE_MAP. The in operator also finds the   *)
(* properties an object literal inherits from Object.prototype.            *)
isValidLanguage(lang) ==
  \/ lang \in {"py", "js", "ts", "c", "cpp", "java", "php", "rs", "go", "d", "f90", "r"}
  \/ lang \in {"constructor", "toString", "valueOf", "hasOwnProperty",
               "isPrototypeOf", "propertyIsEnumerable", "toLocaleString",
               "__proto__", "__defineGetter__", "__defineSetter__",
               "__lookupGetter__", "__lookupSetter__"}

(* What the requests carry and what the backend sends back *)
Languages == {"py", "", "xx", "constructor"}
Codes == {<< >>, <<120>>, MountPrefix \o <<47, 120>>}
DisplayName == <<105, 110, 112, 117, 116, 46, 99, 115, 118>>
BridgeUploads ==
  { [name |-> <<101, 109, 112, 116, 121, 46, 116, 120, 116>>, data |-> << >>],
    [name |-> <<116, 101, 115, 116, 46, 112, 110, 103>>, data |-> <<137, 80>>] }
ExecReplies ==
  {j \in Judge0Responses :
     /\ j.stdout = Str(Base64Encode(<<101>>))
     /\ j.stderr = Absent /\ j.compile_output = Absent /\ j.message = Absent
     /\ j.status.present /\ j.status.id \in {3, 11}
     /\ j.status.description = Str(<<84, 76, 69>>)}
(* post_execution_filesystem: missing, an archive that cannot be read (its *)
(* entries are there, its directory is not), or an archive                 *)
Archives ==
  LET result == [entryName |-> <<114, 101, 115, 117, 108, 116, 46, 99, 115, 118>>, isDirectory |-> FALSE, data |-> <<114>>]
      input  == [entryName |-> DisplayName, isDirectory |-> FALSE, data |-> <<105>>]
      script == [entryName |-> <<115, 99, 114, 105, 112, 116, 46, 112, 121>>, isDirectory |-> FALSE, data |-> <<115>>]
  IN { [present |-> FALSE, readable |-> FALSE, entries |-> << >>],
       [present |-> TRUE, readable |-> FALSE, entries |-> <<result>>],
       [present |-> TRUE, readable |-> TRUE, entries |-> <<script>>],
       [present |-> TRUE, readable |-> TRUE, entries |-> <<script, input>>],
       [present |-> TRUE, readable |-> TRUE, entries |-> <<script, input, result>>] }
TransportErrors == {"response", "ECONNREFUSED", "ETIMEDOUT", "ECONNABORTED", "other"}

(* Variant: every failure gets the text of the last branch *)
ErrorTextUnclassified(e) ==
  <<69, 120, 101, 99, 117, 116, 105, 111, 110, 32, 102, 97, 105, 108, 101, 100, 58, 32, 85, 110, 107, 110, 111, 119, 110, 32, 101, 114, 114, 111, 114>>

(* handleError: the stderr of the response *)
ErrorText(e) ==
  CASE e = "response" ->
       <<74, 117, 100, 103, 101, 48, 32, 101, 114, 114, 111, 114, 32, 40,
         53, 48, 48, 41>>
    [] e = "ECONNREFUSED" ->
       <<74, 117, 100, 103, 101, 48, 32, 115, 101, 114, 118, 105, 99, 101,
         32, 117, 110, 97, 118, 97, 105, 108, 97, 98, 108, 101>>
    [] e \in {"ETIMEDOUT", "ECONNABORTED"} ->
       <<69, 120, 101, 99, 117, 116, 105, 111, 110, 32, 116, 105, 109, 101,
         100, 32, 111, 117, 116>>
    [] OTHER ->
       <<69, 120, 101, 99, 117, 116, 105, 111, 110, 32, 102, 97, 105, 108,
         101, 100, 58, 32, 85, 110, 107, 110, 111, 119, 110, 32, 101, 114,
         114, 111, 114>>

(* Variant: a reference that did not resolve still counts as an input *)
RECURSIVE ResolveInputsAll(_, _, _, _)
ResolveInputsAll(m, r, files, t) ==
  IF files = << >>
  THEN [mem |-> m, rd |-> r, fileBuffers |-> << >>, inputFileNames |-> << >>]
  ELSE LET fileRef == Head(files)
           Push(c, rest) ==
             [rest EXCEPT
                !.fileBuffers = (IF c.res # Null
                                 THEN <<[name |-> fileRef.name, data |-> c.res.data]>>
                                 ELSE << >>) \o @,
                !.inputFileNames = <<fileRef.name>> \o @]
           Got(c) == Push(c, ResolveInputsAll(c.mem, c.rd, Tail(files), t))
       IN Got(StoreCall(m, r, "getFile", fileRef.session_id, fileRef.id, Null, t))

(* execute, lines 93-107: the loop over the file references *)
RECURSIVE ResolveInputs(_, _, _, _)
ResolveInputs(m, r, files, t) ==
  IF files = << >>
  THEN [mem |-> m, rd |-> r, fileBuffers |-> << >>, inputFileNames |-> << >>]
  ELSE LET fileRef == Head(files)
           Push(storedFile, rest) ==
             IF storedFile # Null
             THEN [rest EXCEPT
                     !.fileBuffers = <<[name |-> fileRef.name, data |-> storedFile.data]>> \o @,
                     !.inputFileNames = <<fileRef.name>> \o @]
             ELSE rest
           Got(c) == Push(c.res, ResolveInputs(c.mem, c.rd, Tail(files), t))
       IN Got(StoreCall(m, r, "getFile", fileRef.session_id, fileRef.id, Null, t))

(* Variant: the entries of an archive that cannot be read are used as well *)
ExtractedFilesLenient(fs, inputFileNames) ==
  IF fs.present
  THEN ExtractZip(fs.entries, {inputFileNames[i] : i \in 1..Len(inputFileNames)})
  ELSE << >>

(* translateResponse, lines 186-200: the files to store; extractZip throws *)
(* on an archive it cannot read, which the catch turns into no files       *)
ExtractedFiles(fs, inputFileNames) ==
  IF fs.present /\ fs.readable
  THEN ExtractZip(fs.entries, {inputFileNames[i] : i \in 1..Len(inputFileNames)})
  ELSE << >>

(* translateResponse, lines 190-196: addFile for each extracted file, the  *)
(* file ids being the next ones of nanoid()                                *)
RECURSIVE StoreFiles(_, _, _, _, _, _)
StoreFiles(m, r, sid, files, fid, t) ==
  IF files = << >> THEN [mem |-> m, rd |-> r, outputFiles |-> << >>]
  ELSE LET Push(storedFile, rest) ==
             [rest EXCEPT !.outputFiles =
                <<[id |-> storedFile.id, name |-> Head(files).name,
                   data |-> Head(files).data]>> \o @]
           Added(c) == Push(c.res, StoreFiles(c.mem, c.rd, sid, Tail(files), fid + 1, t))
       IN Added(StoreCall(m, r, "addFile", sid, fid, Head(files), t))

(* Variant: the files field is always there *)
ExecResponseWithList(stdout, stderr, sessionId, outputFiles) ==
  [stdout |-> stdout, stderr |-> stderr, session_id |-> sessionId,
   hasFiles |-> TRUE,
   files |-> [i \in 1..Len(outputFiles) |->
                [id |-> outputFiles[i].id, name |-> outputFiles[i].name]]]

(* translateResponse, lines 203-213: the ExecResponse *)
ExecResponse(stdout, stderr, sessionId, outputFiles) ==
  [stdout |-> stdout, stderr |-> stderr, session_id |-> sessionId,
   hasFiles |-> Len(outputFiles) > 0,
   files |-> [i \in 1..Len(outputFiles) |->
                [id |-> outputFiles[i].id, name |-> outputFiles[i].name]]]

(* The state of the handler between requests, and its parts *)
NoHttp ==
  [route |-> "none", status |-> 0, sid |-> "s1", fid |-> NoFile,
   detail |-> "summary", items |-> {}, file |-> Null, apiKey |-> Absent]
IdleClient ==
  [kind |-> "idle", lang |-> "", code |-> << >>, translatedCode |-> << >>,
   occurred |-> FALSE, files |-> << >>, inputFileNames |-> << >>,
   request |-> [source_code |-> << >>,
                additional_files |-> [present |-> FALSE, entries |-> << >>]],
   created |-> {}, error |-> "none",
   j0 |-> [status |-> [present |-> FALSE, id |-> None, description |-> Absent],
           stdout |-> Absent, stderr |-> Absent, compile_output |-> Absent,
           message |-> Absent],
   fs |-> [present |-> FALSE, readable |-> FALSE, entries |-> << >>],
   resp |-> [stdout |-> << >>, stderr |-> << >>, session_id |-> "s1",
             hasFiles |-> FALSE, files |-> << >>],
   http |-> NoHttp]
(* No handler is under way: nothing received yet, a request answered, or  *)
(* a request received that its route is about to handle                   *)
Resting == client.kind \in {"idle", "returned", "answered", "received"}

InitBridge ==
  /\ backend \in {"memory", "redis"}
  /\ InitStore
  /\ expiryMs <= 2 * TickMs
  /\ client = IdleClient

(* Variant: the generator repeats its first id *)
RepeatedSid == "s1"

(* The next id of nanoid() *)
FreshSid == IF "s1" \notin usedSids THEN "s1" ELSE "s2"

(* The file references a request may carry: files handed out before, under *)
(* a display name of the caller's, and one that was never handed out       *)
FileRefLists ==
  LET RefName(f) == IF f = 1 THEN DisplayName ELSE <<105, 110, 48 + f>>
      R == {[session_id |-> added[f].sid, id |-> f, name |-> RefName(f)] : f \in DOMAIN added}
             \cup {[session_id |-> "s1", id |-> NoFile, name |-> RefName(NoFile)]}
  IN {<< >>} \cup {<<a>> : a \in R} \cup {q \in R \X R : q[1] # q[2]}

(* execute up to the post, lines 63-120 *)
Execute(lang, code, files) ==
  /\ usedSids # SessionIds
  /\ \E in \in {ResolveInputs(mem, rd, files, now)},
        translatedCode \in {TranslateCode(code)} :
        /\ mem' = in.mem
        /\ rd' = in.rd
        /\ client' = [IdleClient EXCEPT
                        !.kind = "posted", !.lang = lang, !.code = code,
                        !.translatedCode = translatedCode,
                        !.occurred = PathTranslationOccurred(code),
                        !.files = files,
                        !.inputFileNames = in.inputFileNames,
                        !.request = [source_code |-> Base64Encode(translatedCode),
                                     additional_files |->
                                       [present |-> Len(in.fileBuffers) > 0,
                                        entries |-> in.fileBuffers]]]
  /\ UNCHANGED <<backend, expiryMs, librechatCodeApiKey, now, procs, nextFile, usedSids, added, gone,
                 pristine, condemned, pair>>

(* POST /exec *)
PostExec(lang, code) ==
  /\ Resting
  /\ calls < MaxCalls
  /\ calls' = calls + 1
  /\ IF lang = "" \/ code = << >> \/ ~isValidLanguage(lang)
     THEN /\ client' = [IdleClient EXCEPT !.kind = "answered", !.lang = lang,
                                         !.code = code,
                                         !.http = [NoHttp EXCEPT !.route = "exec",
                                                                 !.status = 400]]
          /\ UNCHANGED <<backend, expiryMs, librechatCodeApiKey, now, mem, rd, procs, nextFile, usedSids,
                         added, gone, pristine, condemned, pair>>
     ELSE \E files \in FileRefLists : Execute(lang, code, files)

(* The files handed out by a response, remembered with what they hold *)
HandOut(sid, outputFiles) ==
  [f \in {outputFiles[i].id : i \in 1..Len(outputFiles)} |->
     LET o == CHOOSE i \in 1..Len(outputFiles) : outputFiles[i].id = f
     IN [sid |-> sid, name |-> outputFiles[o].name, data |-> outputFiles[o].data,
         conc |-> FALSE, onValid |-> TRUE]] @@ added

(* axiosInstance.post resolves with the reply of the backend *)
Reply(j0, fs) ==
  /\ client.kind = "posted"
  /\ client' = [client EXCEPT !.kind = "replied", !.j0 = j0, !.fs = fs]
  /\ UNCHANGED <<backend, expiryMs, librechatCodeApiKey, now, mem, rd, procs, nextFile, calls,
                 usedSids, added, gone, pristine, condemned, pair>>

(* translateResponse builds the response *)
Respond ==
  /\ client.kind = "replied"
  /\ \E sessionId \in {FreshSid}, j0 \in {client.j0},
        extractedFiles \in {ExtractedFiles(client.fs, client.inputFileNames)} :
     \E c \in {StoreCall(mem, rd, "createSession", sessionId, NoFile, Null, now)} :
     \E a \in {StoreFiles(c.mem, c.rd, sessionId, extractedFiles, nextFile, now)} :
        /\ nextFile + Len(extractedFiles) - 1 <= MaxFiles
        /\ mem' = a.mem
        /\ rd' = a.rd
        /\ nextFile' = nextFile + Len(extractedFiles)
        /\ usedSids' = usedSids \cup {sessionId}
        /\ added' = HandOut(sessionId, a.outputFiles)
        /\ client' = [IdleClient EXCEPT
                        !.kind = "returned",
                        !.created = {sessionId},
                        !.fs = client.fs,
                        !.resp = ExecResponse(TranslateStdout(j0, client.occurred),
                                              TranslateStderr(j0), sessionId,
                                              a.outputFiles),
                        !.http = [NoHttp EXCEPT !.route = "exec", !.status = 200]]
  /\ UNCHANGED <<backend, expiryMs, librechatCodeApiKey, now, procs, calls, gone, pristine,
                 condemned, pair>>

(* The request fails and handleError builds the response *)
Fail(e) ==
  /\ client.kind = "posted"
  /\ \E sessionId \in {FreshSid} :
     \E c \in {StoreCall(mem, rd, "createSession", sessionId, NoFile, Null, now)} :
        /\ mem' = c.mem
        /\ rd' = c.rd
        /\ usedSids' = usedSids \cup {sessionId}
        /\ client' = [IdleClient EXCEPT
                        !.kind = "returned",
                        !.created = {sessionId},
                        !.error = e,
                        !.resp = ExecResponse(<< >>, ErrorText(e), sessionId, << >>),
                        !.http = [NoHttp EXCEPT !.route = "exec", !.status = 200]]
  /\ UNCHANGED <<backend, expiryMs, librechatCodeApiKey, now, procs, nextFile, calls, added, gone,
                 pristine, condemned, pair>>

(* POST /upload: without a file part the answer is 400 *)
PostUpload(file) ==
  /\ Resting
  /\ calls < MaxCalls
  /\ calls' = calls + 1
  /\ IF file = Null
     THEN /\ client' = [IdleClient EXCEPT !.kind = "answered",
                                         !.http = [NoHttp EXCEPT !.route = "upload",
                                                                 !.status = 400]]
          /\ UNCHANGED <<backend, expiryMs, librechatCodeApiKey, now, mem, rd, procs, nextFile, usedSids,
                         added, gone, pristine, condemned, pair>>
     ELSE /\ usedSids # SessionIds
          /\ nextFile <= MaxFiles
          /\ \E sessionId \in {FreshSid} :
             \E c \in {StoreCall(mem, rd, "createSession", sessionId, NoFile, Null, now)} :
             \E a \in {StoreFiles(c.mem, c.rd, sessionId, <<file>>, nextFile, now)} :
                /\ mem' = a.mem
                /\ rd' = a.rd
                /\ added' = HandOut(sessionId, a.outputFiles)
                /\ usedSids' = usedSids \cup {sessionId}
                /\ client' = [IdleClient EXCEPT
                                !.kind = "answered",
                                !.created = {sessionId},
                                !.http = [NoHttp EXCEPT !.route = "upload",
                                                        !.status = 200,
                                                        !.sid = sessionId,
                                                        !.fid = a.outputFiles[1].id]]
          /\ nextFile' = nextFile + 1
          /\ UNCHANGED <<backend, expiryMs, librechatCodeApiKey, now, procs, gone, pristine, condemned, pair>>

(* GET /files/:session_id up to the answer of isSessionValid *)
GetFilesCheck(sid, detail) ==
  /\ Resting
  /\ calls < MaxCalls
  /\ calls' = calls + 1
  /\ \E v \in {StoreCall(mem, rd, "isSessionValid", sid, NoFile, Null, now)} :
        /\ mem' = v.mem
        /\ rd' = v.rd
        /\ client' = [IdleClient EXCEPT
                        !.kind = IF v.res.val THEN "listing" ELSE "answered",
                        !.http = [NoHttp EXCEPT !.route = "files", !.sid = sid,
                                                !.detail = detail,
                                                !.status = IF v.res.val THEN 0 ELSE 404]]
  /\ UNCHANGED <<backend, expiryMs, librechatCodeApiKey, now, procs, nextFile, usedSids, added, gone,
                 pristine, condemned, pair>>

(* GET /files/:session_id from listFiles on *)
GetFilesList ==
  /\ client.kind = "listing"
  /\ \E l \in {StoreCall(mem, rd, "listFiles", client.http.sid, NoFile, Null, now)} :
        /\ mem' = l.mem
        /\ rd' = l.rd
        /\ client' = [client EXCEPT
                        !.kind = "answered",
                        !.http.status = 200,
                        !.http.items =
                          {[name |-> CompoundName(client.http.sid, f.id),
                            original |-> IF client.http.detail = "full"
                                         THEN Str(f.name) ELSE Absent,
                            lastModified |-> f.lastModified] : f \in l.res.items}]
  /\ UNCHANGED <<backend, expiryMs, librechatCodeApiKey, now, procs, nextFile, calls, usedSids, added,
                 gone, pristine, condemned, pair>>

(* GET /download/:session_id/:file_id *)
GetDownload(sid, fid) ==
  /\ Resting
  /\ calls < MaxCalls
  /\ calls' = calls + 1
  /\ \E g \in {StoreCall(mem, rd, "getFile", sid, fid, Null, now)} :
        /\ mem' = g.mem
        /\ rd' = g.rd
        /\ client' = [IdleClient EXCEPT
                        !.kind = "answered",
                        !.http = [NoHttp EXCEPT !.route = "download", !.sid = sid,
                                                !.fid = fid,
                                                !.status = IF g.res = Null THEN 404 ELSE 200,
                                                !.file = g.res]]
  /\ UNCHANGED <<backend, expiryMs, librechatCodeApiKey, now, procs, nextFile, usedSids, added, gone,
                 pristine, condemned, pair>>

(* The sweep is a timer: it runs while a handler waits for I/O, not between *)
(* the two store calls of GET /files on the in-process store               *)
Sweep == client.kind # "listing" /\ Cleanup

NextBridge ==
  \/ Tick
  \/ Sweep
  \/ \E lang \in Languages, code \in Codes : PostExec(lang, code)
  \/ \E j0 \in ExecReplies, fs \in Archives : Reply(j0, fs)
  \/ Respond
  \/ \E e \in TransportErrors : Fail(e)
  \/ \E file \in BridgeUploads \cup {Null} : PostUpload(file)
  \/ \E sid \in SessionIds, detail \in {"summary", "full"} : GetFilesCheck(sid, detail)
  \/ GetFilesList
  \/ \E sid \in SessionIds, fid \in FileIds \cup {NoFile} : GetDownload(sid, fid)

SpecBridge == InitBridge /\ [][NextBridge]_vars

Returned == client.kind = "returned"

(* C13: the response execute returns carries the id of the one session     *)
(* created during that call, and isSessionValid is true for that id at the *)
(* moment of the return.                                                   *)
C13_ResponseSessionValid ==
  [][(client.kind \in {"posted", "replied"} /\ client'.kind = "returned") =>
       /\ client'.created = {client'.resp.session_id}
       /\ client'.resp.session_id \notin usedSids
       /\ Valid(backend, mem', rd', client'.resp.session_id, now')]_vars

(* C20: whenever the rewrite changed the source, the stdout of the         *)
(* response begins with the notice, whatever the outcome of the call.      *)
C20_NoticeOnEveryOutcome ==
  [][(client.translatedCode # client.code /\ client'.kind = "returned") =>
       /\ Len(client'.resp.stdout) >= Len(Notice)
       /\ SubSeq(client'.resp.stdout, 1, Len(Notice)) = Notice]_vars

(* C22: every (session, file) pair handed to a client resolves while the   *)
(* session has not expired: GET /files lists it under its compound name    *)
(* (with the original file name in the full format) and GET /download      *)
(* returns the bytes handed in or produced.                                *)
C22_HandedOutResolves ==
  [][/\ (calls' = calls + 1 /\ client'.http.route = "download"
           /\ client'.http.fid \in DOMAIN added
           /\ added[client'.http.fid].sid = client'.http.sid
           /\ Valid(backend, mem, rd, client'.http.sid, now))
          => /\ client'.http.status = 200
             /\ client'.http.file.data = added[client'.http.fid].data
     /\ (client.kind = "listing" /\ client'.kind = "answered"
           /\ Valid(backend, mem, rd, client.http.sid, now))
          => \A f \in DOMAIN added :
               added[f].sid = client.http.sid =>
                 \E it \in client'.http.items :
                   /\ it.name = CompoundName(client.http.sid, f)
                   /\ client.http.detail = "full" => it.original = Str(added[f].name)]_vars

(* C23: the execute response has the files field exactly when at least one *)
(* output file was stored for this execution, and then the field is not    *)
(* empty; stdout, stderr and session_id are always there.                  *)
C23_FilesFieldIffStored ==
  [][(client.kind \in {"posted", "replied"} /\ client'.kind = "returned") =>
       /\ client'.resp.hasFiles <=> nextFile' > nextFile
       /\ client'.resp.hasFiles <=> client'.resp.files # << >>
       /\ Len(client'.resp.files) = nextFile' - nextFile
       /\ \A i \in 1..Len(client'.resp.files) :
            /\ client'.resp.files[i].id \in DOMAIN added' \ DOMAIN added
            /\ added'[client'.resp.files[i].id].sid = client'.resp.session_id
       /\ DOMAIN client'.resp = {"stdout", "stderr", "session_id", "hasFiles", "files"}
       /\ client'.resp.session_id \in SessionIds]_vars

C23_Witness ==
  /\ Returned
  /\ client.resp.hasFiles
  /\ Len(client.resp.files) = 1

(* C24: an output archive that cannot be decoded or extracted does not     *)
(* fail the execution: the response carries the stdout, stderr and session *)
(* the status classification produced, has no files field, and no file is  *)
(* added to the output session.                                            *)
C24_BadArchiveTolerated ==
  [][(client.kind = "replied" /\ client.fs.present /\ ~client.fs.readable
        /\ client' # client) =>
       /\ client'.kind = "returned"
       /\ client'.http.status = 200
       /\ client'.resp.stdout = TranslateStdout(client.j0, client.occurred)
       /\ client'.resp.stderr = TranslateStderr(client.j0)
       /\ client'.created = {client'.resp.session_id}
       /\ ~client'.resp.hasFiles
       /\ client'.resp.files = << >>
       /\ nextFile' = nextFile
       /\ added' = added
       /\ WouldListFiles(backend, mem', rd', client'.resp.session_id, now').items = {}]_vars

C24_Witness ==
  /\ Returned
  /\ client.error = "none"
  /\ ~client.resp.hasFiles
  /\ client.resp.stdout # << >>
  /\ client.fs.present /\ ~client.fs.readable

(* C25: a file reference the store cannot resolve is skipped and execute   *)
(* goes on: the submission is sent, the archive is attached exactly when   *)
(* some reference resolved, it holds exactly the resolved files under      *)
(* their display names, and the known input names are exactly the display  *)
(* names of the resolved references.                                       *)
C25_UnresolvedSkipped ==
  [][(Resting /\ client'.kind = "posted") =>
       LET files == client'.files
           Found(i) == WouldGetFile(backend, mem, rd, files[i].session_id,
                                    files[i].id, now)
           Resolves(i) == Found(i) # Null
           resolved == SelectSeq([i \in 1..Len(files) |-> i], Resolves)
       IN /\ client'.inputFileNames =
               [k \in 1..Len(resolved) |-> files[resolved[k]].name]
          /\ client'.request.additional_files.present <=> resolved # << >>
          /\ client'.request.additional_files.entries =
               [k \in 1..Len(resolved) |->
                  [name |-> files[resolved[k]].name, data |-> Found(resolved[k]).data]]
          /\ client'.request.source_code = Base64Encode(TranslateCode(client'.code))]_vars

C25_Witness ==
  /\ client.kind = "posted"
  /\ Len(client.files) = 2
  /\ Len(client.inputFileNames) = 1
  /\ client.request.additional_files.present
  /\ Len(client.request.additional_files.entries) = 1

(* C26: a transport failure does not leave execute as an error: a refused   *)
(* connection, a timeout and a non-2xx reply each give a normal response    *)
(* with empty stdout, the stderr of their class ('Judge0 service            *)
(* unavailable', 'Execution timed out', 'Judge0 error (<status>)...') and a *)
(* session id; any other error gives stderr 'Execution failed: ...'.        *)
C26_TransportFailureClassified ==
  [][(client.kind = "posted" /\ client'.kind = "returned") =>
       LET StartsWith(s, p) == Len(s) >= Len(p) /\ SubSeq(s, 1, Len(p)) = p
           stderr == client'.resp.stderr
       IN /\ client'.http.status = 200
          /\ client'.resp.stdout = << >>
          /\ client'.resp.session_id \in usedSids' \ usedSids
          /\ ~client'.resp.hasFiles
          /\ client'.error = "ECONNREFUSED" =>
               stderr = <<74, 117, 100, 103, 101, 48, 32, 115, 101, 114, 118, 105, 99, 101, 32, 117, 110, 97, 118, 97, 105, 108, 97, 98, 108, 101>>
          /\ client'.error \in {"ETIMEDOUT", "ECONNABORTED"} =>
               stderr = <<69, 120, 101, 99, 117, 116, 105, 111, 110, 32, 116, 105, 109, 101, 100, 32, 111, 117, 116>>
          /\ client'.error = "response" =>
               StartsWith(stderr, <<74, 117, 100, 103, 101, 48, 32, 101, 114, 114, 111, 114, 32, 40, 53, 48, 48, 41>>)
          /\ client'.error = "other" =>
               StartsWith(stderr, <<69, 120, 101, 99, 117, 116, 105, 111, 110, 32, 102, 97, 105, 108, 101, 100, 58, 32>>)
          /\ client'.error \in TransportErrors]_vars

C26_Witness ==
  /\ Returned
  /\ client.error = "ETIMEDOUT"
  /\ client.resp.stderr = <<69, 120, 101, 99, 117, 116, 105, 111, 110, 32, 116, 105, 109, 101, 100, 32, 111, 117, 116>>
  /\ client.resp.session_id \in usedSids

(* C27: a POST /exec request without a language, without code or with a    *)
(* language code that is not supported is answered 400 before the core is  *)
(* invoked: nothing is posted, no session is created, the store is as it   *)
(* was.                                                                    *)
C27_InvalidRequestRejected ==
  [][(Resting /\ calls' = calls + 1
        /\ (client'.kind = "posted" \/ client'.http.route = "exec")
        /\ \/ client'.lang = ""
           \/ client'.code = << >>
           \/ client'.lang \notin {"py", "js", "ts", "c", "cpp", "java", "php",
                                   "rs", "go", "d", "f90", "r"}) =>
       /\ client'.kind = "answered"
       /\ client'.http.status = 400
       /\ usedSids' = usedSids
       /\ mem' = mem
       /\ rd' = rd]_vars

(* C28: GET /files answers 404 whenever the session is unknown or expired  *)
(* and 200 with the session's files otherwise, whatever happens between    *)
(* its validity check and its listing: never 200 with an empty list for a  *)
(* session that is absent. GET /download answers 404 exactly when getFile  *)
(* finds no such file.                                                     *)
C28_ListingOnlyOfValidSession ==
  [][/\ (client.kind = "listing" /\ client'.kind = "answered") =>
          /\ client'.http.status = 200
          /\ Valid(backend, mem, rd, client.http.sid, now)
          /\ {it.name : it \in client'.http.items} =
               {CompoundName(client.http.sid, f.id) :
                  f \in WouldListFiles(backend, mem, rd, client.http.sid, now).items}
     /\ (Resting /\ calls' = calls + 1 /\ client'.http.route = "files"
           /\ client'.kind = "answered") =>
          /\ client'.http.status = 404
          /\ ~Valid(backend, mem, rd, client'.http.sid, now)
     /\ (Resting /\ calls' = calls + 1 /\ client'.http.route = "files"
           /\ client'.kind = "listing") =>
          Valid(backend, mem, rd, client'.http.sid, now)
     /\ (Resting /\ calls' = calls + 1 /\ client'.http.route = "download") =>
          /\ client'.http.status \in {200, 404}
          /\ client'.http.status = 404 <=>
               WouldGetFile(backend, mem, rd, client'.http.sid, client'.http.fid, now) = Null]_vars

(* String.prototype.split on one separator character *)
RECURSIVE SplitOn(_, _)
SplitOn(s, sep) ==
  IF \A i \in 1..Len(s) : s[i] # sep THEN <<s>>
  ELSE LET i == CHOOSE k \in 1..Len(s) : s[k] = sep /\ \A j \in 1..(k - 1) : s[j] # sep
       IN <<SubSeq(s, 1, i - 1)>> \o SplitOn(SubSeq(s, i + 1, Len(s)), sep)

(* 21 characters out of A-Za-z0-9_- *)
IsToken(s) ==
  /\ Len(s) = 21
  /\ \A i \in 1..Len(s) : s[i] \in (48..57) \cup (65..90) \cup (97..122) \cup {45, 95}

(* C29: every session id and file id the bridge returns is a 21-character  *)
(* token over A-Za-z0-9_-, so the compound name of a listed file splits on *)
(* '/' into exactly the session id and the file id; and no session in the  *)
(* store has an id the bridge did not generate.                            *)
C29_IdsAreTokens ==
  /\ (client.kind = "answered" /\ client.http.route = "upload" /\ client.http.status = 200) =>
       /\ IsToken(SessionIdText(client.http.sid))
       /\ IsToken(FileIdText(client.http.fid))
  /\ Returned =>
       /\ IsToken(SessionIdText(client.resp.session_id))
       /\ \A i \in 1..Len(client.resp.files) : IsToken(FileIdText(client.resp.files[i].id))
  /\ (client.kind = "answered" /\ client.http.route = "files" /\ client.http.status = 200) =>
       \A it \in client.http.items :
         \E f \in DOMAIN added :
           /\ added[f].sid = client.http.sid
           /\ SplitOn(it.name, 47) = <<SessionIdText(client.http.sid), FileIdText(f)>>
  /\ \A s \in SessionIds :
       (IF backend = "memory" THEN mem.sessions[s] # NoRef
        ELSE rd.sess[s].ex \/ rd.files[s].ex) => s \in usedSids

C29_Witness ==
  /\ client.kind = "answered"
  /\ client.http.route = "files"
  /\ client.http.status = 200
  /\ client.http.items # {}
  /\ usedSids # SessionIds

C31_CleanupRemovesExactlyExpired ==
  [][/\ (backend = "memory" /\ procs' = procs /\ now' = now /\ mem' # mem) =>
          \A s \in SessionIds :
            IF MemIsSessionValid(mem, s, now)
            THEN /\ mem'.sessions[s] # NoRef
                 /\ mem'.heap[mem'.sessions[s]] = mem.heap[mem.sessions[s]]
            ELSE mem'.sessions[s] = NoRef
     /\ backend = "redis" => RedisCleanup(rd) = rd]_vars

C31_Witness ==
  /\ backend = "memory"
  /\ \E s, v \in SessionIds :
       /\ pristine[s] # None
       /\ mem.sessions[s] = NoRef
       /\ MemIsSessionValid(mem, v, now)
       /\ DOMAIN mem.heap[mem.sessions[v]].files # {}

----------------------------------------------------------------------------
(* The life of MemoryStorage: the constructor starts the sweep timer,      *)
(* destroy clears it. Calls run to their return.                           *)

InitSweep ==
  /\ backend = "memory"
  /\ InitStore
  /\ client = [kind |-> "store", cleanupInterval |-> TRUE, destroyed |-> FALSE]

(* Variant: a timer that fires once *)
TimerSweepOnce ==
  /\ client.cleanupInterval
  /\ mem' = MemCollect(MemCleanup(mem, now), procs)
  /\ mem' # mem
  /\ client' = [client EXCEPT !.cleanupInterval = FALSE]
  /\ UNCHANGED <<backend, expiryMs, librechatCodeApiKey, now, rd, procs, nextFile, calls, usedSids,
                 added, gone, pristine, condemned, pair>>

(* setInterval(() => this.cleanup(), 5 * 60 * 1000) *)
TimerSweep == client.cleanupInterval /\ Cleanup

(* MemoryStorage.destroy: clearInterval, once *)
Destroy ==
  /\ client.cleanupInterval
  /\ client' = [client EXCEPT !.cleanupInterval = FALSE, !.destroyed = TRUE]
  /\ UNCHANGED <<backend, expiryMs, librechatCodeApiKey, now, mem, rd, procs, nextFile, calls, usedSids,
                 added, gone, pristine, condemned, pair>>

NextSweep == Tick \/ TimerSweep \/ Destroy \/ Invoke(1, SessionIds, TRUE)
SpecSweep == InitSweep /\ [][NextSweep]_vars

(* The timer fires again and again while it is set, and time passes *)
SpecSweepFair == SpecSweep /\ WF_vars(TimerSweep) /\ WF_vars(Tick)

C33_SweepDoesNotTearCalls ==
  [][(procs[1].pc # "done" /\ procs'[1].pc = "done"
        /\ now' - procs'[1].startAt < expiryMs) =>
       LET fr == procs'[1]
           current == IF mem'.sessions[fr.sid] = NoRef THEN EmptyMap
                      ELSE mem'.heap[mem'.sessions[fr.sid]].files
       IN /\ fr.op = "addFile" =>
               /\ fr.res = IdRes(fr.fid)
               /\ WouldGetFile(backend, mem', rd', fr.sid, fr.fid, now') # Null
               /\ WouldGetFile(backend, mem', rd', fr.sid, fr.fid, now').data = fr.up.data
          /\ fr.op = "listFiles" =>
               /\ fr.res.kind = "list"
               /\ {it.id : it \in fr.res.items} = DOMAIN current
          /\ fr.op = "getFile" =>
               IF fr.fid \in DOMAIN current
               THEN /\ fr.res.kind = "file"
                    /\ fr.res.data = current[fr.fid].data
                    /\ fr.res.name = current[fr.fid].name
               ELSE fr.res = Null]_vars

C33_Witness ==
  /\ backend = "memory"
  /\ calls = 2
  /\ procs[1].pc = "done"
  /\ procs[1].op = "getFile"
  /\ procs[1].fid \in DOMAIN added
  /\ added[procs[1].fid].sid = procs[1].sid
  /\ ~procs[1].startExpired
  /\ procs[1].res = Null

----------------------------------------------------------------------------
(* getStats: the counters of the store. A sum of sizes is the number of    *)
(* (session, file, byte index) triples.                                    *)

(* MemoryStorage.getStats walks this.sessions, whatever their age *)
MemGetStats(m) ==
  LET inMap == {s \in SessionIds : m.sessions[s] # NoRef}
      files(s) == m.heap[m.sessions[s]].files
      held == {p \in inMap \X FileIds : p[2] \in DOMAIN files(p[1])}
  IN [sessionCount |-> Cardinality(inMap),
      totalFiles |-> Cardinality(held),
      totalSize |-> Cardinality(UNION {{<<p[1], p[2], i>> : i \in 1..files(p[1])[p[2]].size}
                                         : p \in held})]

(* RedisStorage.getStats: SCAN session:*, the keys without ':files' are    *)
(* the sessions; HGETALL of the file list of each; size || 0 of each entry *)
RedisGetStats(r) ==
  LET keys == {s \in SessionIds : r.sess[s].ex}
      filesData(s) == r.files[s].meta
      held == {p \in keys \X FileIds : p[2] \in DOMAIN filesData(p[1])}
  IN [sessionCount |-> Cardinality(keys),
      totalFiles |-> Cardinality(held),
      totalSize |-> Cardinality(UNION {{<<p[1], p[2], i>> :
                                           i \in 1..JsonParse(filesData(p[1])[p[2]]).size}
                                         : p \in held})]

(* What getStats() would answer *)
WouldGetStats(b, m, r) == IF b = "memory" THEN MemGetStats(m) ELSE RedisGetStats(r)

(* The counters of the live data: the sessions isSessionValid reports      *)
(* valid at time t and the files listFiles reports for them                *)
LiveStats(b, m, r, t) ==
  LET live == {s \in SessionIds : Valid(b, m, r, s, t)}
      listed == {p \in live \X FileIds :
                   \E it \in WouldListFiles(b, m, r, p[1], t).items : it.id = p[2]}
      size(p) == (CHOOSE it \in WouldListFiles(b, m, r, p[1], t).items : it.id = p[2]).size
  IN [sessionCount |-> Cardinality(live),
      totalFiles |-> Cardinality(listed),
      totalSize |-> Cardinality(UNION {{<<p[1], p[2], i>> : i \in 1..size(p)} : p \in listed})]

(* C34: getStats reports only live data: sessionCount is the number of     *)
(* sessions isSessionValid reports valid, totalFiles the number of files   *)
(* in them and totalSize the sum of their byte lengths; an expired session *)
(* that is not purged yet is not counted.                                  *)
C34_StatsCountLiveData ==
  WouldGetStats(backend, mem, rd) = LiveStats(backend, mem, rd, now)

----------------------------------------------------------------------------
(* C35: listFiles and getFile agree, in both stores and under any          *)
(* interleaving of store calls and key expiry: while a session is valid,   *)
(* every file id listFiles returns for it is retrievable with getFile      *)
(* (non-null, with the listed name and size), and every file id for which  *)
(* addFile has returned is listed.                                         *)
C35_ListAndGetAgree ==
  \A s \in SessionIds :
    Valid(backend, mem, rd, s, now) =>
      /\ \A it \in WouldListFiles(backend, mem, rd, s, now).items :
           LET got == WouldGetFile(backend, mem, rd, s, it.id, now)
           IN /\ got # Null
              /\ got.name = it.name
              /\ got.size = it.size
      /\ \A f \in DOMAIN added :
           added[f].sid = s =>
             \E it \in WouldListFiles(backend, mem, rd, s, now).items : it.id = f

----------------------------------------------------------------------------
(* C36: in the Redis store a read never brings a session into existence:   *)
(* the key session:{sid} comes to exist only by a command of createSession *)
(* or addFile for that id, never by one of getSession, getFile, listFiles  *)
(* or isSessionValid (so a key that expired during a read stays absent),   *)
(* and when createSession or addFile returns, the session key it leaves    *)
(* carries an expiry.                                                      *)
C36_ReadsNeverCreateSession ==
  [][backend = "redis" =>
       \A s \in SessionIds :
         /\ (~rd.sess[s].ex /\ rd'.sess[s].ex) =>
              \E p \in Procs : /\ procs'[p] # procs[p]
                               /\ procs'[p].sid = s
                               /\ procs'[p].op \in {"createSession", "addFile"}
         /\ \A p \in Procs :
              (/\ procs[p].pc # "done" /\ procs'[p].pc = "done"
               /\ procs'[p].op \in {"createSession", "addFile"}
               /\ procs'[p].sid = s
               /\ rd'.sess[s].ex) => rd'.sess[s].exp # None]_vars

----------------------------------------------------------------------------
(* The indexes at which '..' stands in a text *)
DotDots(s) == {i \in 1..(Len(s) - 1) : s[i] = 46 /\ s[i + 1] = 46}

(* C37: the path rewrite never creates a parent-directory reference: the   *)
(* rewritten source contains '..' only where the original source had it,   *)
(* so it never holds more occurrences of '..' than the original.           *)
C37_RewriteCreatesNoDotDot ==
  Rewritten => Cardinality(DotDots(client.translatedCode)) <= Cardinality(DotDots(client.code))

----------------------------------------------------------------------------
(* authenticate, the first middleware of the four routes. A request is     *)
(* received with its X-API-Key header, then denied or handed to its route. *)

RouteNames == {"exec", "upload", "files", "download"}

(* req.headers['x-api-key']: missing, empty, the key 'k', or 'K' *)
ApiKeyHeaders == {Absent, Str(<< >>), Str(<<107>>), Str(<<75>>)}

(* LIBRECHAT_CODE_API_KEY: not set, or 'k' *)
ConfiguredKeys == {<< >>, <<107>>}

(* Variant: only a header that is present and wrong is turned away *)
PassesPresentOnly(apiKey) ==
  \/ librechatCodeApiKey = << >>
  \/ ~(Truthy(apiKey) /\ apiKey.val # librechatCodeApiKey)

(* authenticate calls next() *)
Passes(apiKey) ==
  \/ librechatCodeApiKey = << >>
  \/ ~(~Truthy(apiKey) \/ apiKey.val # librechatCodeApiKey)

InitAuth ==
  /\ backend \in {"memory", "redis"}
  /\ InitFresh
  /\ expiryMs <= 2 * TickMs
  /\ librechatCodeApiKey \in ConfiguredKeys
  /\ client = IdleClient

(* The server takes a request in *)
Receive(route, apiKey) ==
  /\ client.kind \in {"idle", "returned", "answered"}
  /\ calls < MaxCalls
  /\ client' = [IdleClient EXCEPT !.kind = "received",
                                  !.http = [NoHttp EXCEPT !.route = route,
                                                          !.apiKey = apiKey]]
  /\ UNCHANGED <<backend, expiryMs, librechatCodeApiKey, now, mem, rd, procs, nextFile,
                 calls, usedSids, added, gone, pristine, condemned, pair>>

(* authenticate answers 401 and does not call next() *)
Deny ==
  /\ client.kind = "received"
  /\ ~Passes(client.http.apiKey)
  /\ calls' = calls + 1
  /\ client' = [client EXCEPT !.kind = "answered", !.http.status = 401]
  /\ UNCHANGED <<backend, expiryMs, librechatCodeApiKey, now, mem, rd, procs, nextFile,
                 usedSids, added, gone, pristine, condemned, pair>>

(* authenticate calls next(): the handler of the route runs *)
Admitted(route) ==
  /\ client.kind = "received"
  /\ client.http.route = route
  /\ Passes(client.http.apiKey)

(* The four routes behind authenticate *)
ExecRoute(lang, code) == Admitted("exec") /\ PostExec(lang, code)
UploadRoute(file) == Admitted("upload") /\ PostUpload(file)
FilesRoute(sid, detail) == Admitted("files") /\ GetFilesCheck(sid, detail)
DownloadRoute(sid, fid) == Admitted("download") /\ GetDownload(sid, fid)

NextAuth ==
  \/ Tick
  \/ Sweep
  \/ \E route \in RouteNames, apiKey \in ApiKeyHeaders : Receive(route, apiKey)
  \/ Deny
  \/ \E lang \in Languages, code \in Codes : ExecRoute(lang, code)
  \/ \E j0 \in ExecReplies, fs \in Archives : Reply(j0, fs)
  \/ Respond
  \/ \E e \in TransportErrors : Fail(e)
  \/ \E file \in BridgeUploads \cup {Null} : UploadRoute(file)
  \/ \E sid \in SessionIds, detail \in {"summary", "full"} : FilesRoute(sid, detail)
  \/ GetFilesList
  \/ \E sid \in SessionIds, fid \in FileIds \cup {NoFile} : DownloadRoute(sid, fid)

SpecAuth == InitAuth /\ [][NextAuth]_vars

----------------------------------------------------------------------------
(* Graceful shutdown: SIGTERM or SIGINT runs shutdown(), which awaits      *)
(* storage.destroy() and then calls server.close(); the process exits when *)
(* the server has closed, that is when no request is under way any more.   *)
(* A handler under way calls the store.                                    *)

MaxSignals == 2
MaxRequests == 2

InitShutdown ==
  /\ backend \in {"memory", "redis"}
  /\ InitStore
  /\ client = [kind |-> "server", listening |-> TRUE, exited |-> FALSE,
               signals |-> 0, awaiting |-> 0, destroys |-> 0,
               cleanupInterval |-> backend = "memory", quit |-> FALSE,
               requests |-> 0, rejected |-> 0]

(* A signal arrives: shutdown runs up to its await, destroy() is called.   *)
(* RedisStorage.destroy sends QUIT and shutdown waits for the reply.       *)
(* MemoryStorage.destroy clears the timer and awaits nothing: shutdown     *)
(* goes on to server.close() before any other event is served.             *)
Shutdown ==
  /\ ~client.exited
  /\ client.signals < MaxSignals
  /\ client' = [client EXCEPT !.signals = @ + 1,
                              !.awaiting = IF backend = "redis" THEN @ + 1 ELSE @,
                              !.listening = IF backend = "redis" THEN @ ELSE FALSE,
                              !.destroys = @ + 1,
                              !.cleanupInterval = FALSE,
                              !.quit = (backend = "redis")]
  /\ UNCHANGED <<backend, expiryMs, librechatCodeApiKey, now, mem, rd, procs, nextFile,
                 calls, usedSids, added, gone, pristine, condemned, pair>>

(* QUIT is answered, destroy() resolves: shutdown goes on to               *)
(* server.close(), the server takes no new connection                      *)
ServerClose ==
  /\ ~client.exited
  /\ client.awaiting > 0
  /\ client' = [client EXCEPT !.awaiting = @ - 1, !.listening = FALSE]
  /\ UNCHANGED <<backend, expiryMs, librechatCodeApiKey, now, mem, rd, procs, nextFile,
                 calls, usedSids, added, gone, pristine, condemned, pair>>

(* The callback of server.close: every connection has ended, process.exit *)
ProcessExit ==
  /\ ~client.exited
  /\ ~client.listening
  /\ client.requests = 0
  /\ client' = [client EXCEPT !.exited = TRUE]
  /\ UNCHANGED <<backend, expiryMs, librechatCodeApiKey, now, mem, rd, procs, nextFile,
                 calls, usedSids, added, gone, pristine, condemned, pair>>

(* The server accepts a request *)
Accept ==
  /\ ~client.exited
  /\ client.listening
  /\ client.requests < MaxRequests
  /\ client' = [client EXCEPT !.requests = @ + 1]
  /\ UNCHANGED <<backend, expiryMs, librechatCodeApiKey, now, mem, rd, procs, nextFile,
                 calls, usedSids, added, gone, pristine, condemned, pair>>

(* The handler of a request under way calls the store *)
HandlerCall ==
  /\ ~client.exited
  /\ client.requests > 0
  /\ ~client.quit
  /\ Invoke(1, SessionIds, TRUE)

(* The same on a RedisStorage whose connection has been quit: the command  *)
(* is rejected                                                              *)
HandlerCallClosed ==
  /\ ~client.exited
  /\ client.requests > 0
  /\ client.quit
  /\ calls < MaxCalls
  /\ calls' = calls + 1
  /\ client' = [client EXCEPT !.rejected = @ + 1]
  /\ UNCHANGED <<backend, expiryMs, librechatCodeApiKey, now, mem, rd, procs, nextFile,
                 usedSids, added, gone, pristine, condemned, pair>>

(* A request is answered *)
Answer ==
  /\ ~client.exited
  /\ client.requests > 0
  /\ client' = [client EXCEPT !.requests = @ - 1]
  /\ UNCHANGED <<backend, expiryMs, librechatCodeApiKey, now, mem, rd, procs, nextFile,
                 calls, usedSids, added, gone, pristine, condemned, pair>>

NextShutdown ==
  \/ Tick
  \/ Shutdown
  \/ ServerClose
  \/ ProcessExit
  \/ Accept
  \/ HandlerCall
  \/ HandlerCallClosed
  \/ Answer

SpecShutdown == InitShutdown /\ [][NextShutdown]_vars

(* C39: during graceful shutdown the store is destroyed only after the     *)
(* server has stopped serving: no request accepted or still under way      *)
(* after the signal calls a store operation on a destroyed store, and      *)
(* destroy is called at most once even when the signal comes twice.        *)
C39_DestroyAfterServerStopped ==
  [][/\ calls' # calls => client.destroys = 0
     /\ client'.destroys <= 1]_vars

====
